---- MODULE Spec2Model ----
(***************************************************************************)
(* Codefusion-AI-backend: questions, submissions and their AI review       *)
(* pipeline, discussion threads, chat sessions and the AI news cache.      *)
(*                                                                         *)
(* The database tables are the state; every HTTP handler, and every        *)
(* repository/domain method the handlers are built from, is an action.     *)
(* A response (status code and body) is recorded in `resp`, the last       *)
(* response produced.  The submit-and-review request is followed step by   *)
(* step in `req` because it awaits between its steps.                      *)
(***************************************************************************)
EXTENDS Integers, Sequences, FiniteSets, TLC

\* ------------------------------------------------------------------ bounds
MaxQuestions == 1
MaxSubmissions == 1
MaxRequests == 2
MaxReviews == 2
MaxTests == 5
MaxThreads == 2
MaxMessages == 3
MaxSessions == 2
MaxChatMessages == 5
MaxClock == 4
MaxNewsCalls == 3
MaxRefreshes == 2
MaxRaceClock == 1

VARIABLES
  questions,    \* questions table with owned examples/constraints/test cases
  hints,        \* ai_hint_requests table: id -> row
  submissions,  \* submissions table: id -> row
  reviews,      \* ai_reviews table: id -> row
  threads,      \* discussion_threads table: id -> row
  dmessages,    \* discussion_messages table: id -> row
  sessions,     \* chat_sessions table: id -> row
  cmessages,    \* ai_chat_messages table: id -> row
  inflight,     \* the chat requests waiting for the language model
  ids,          \* the serial sequences of the tables
  clock,        \* the wall clock (datetime.now / now())
  cache,        \* NewsRepository._cached_news and _last_fetch
  feeds,        \* what the RSS feeds currently serve
  fetching,     \* the news refreshes waiting for a feed
  req,          \* the submit-and-review request in flight
  resp,         \* the last response sent (or exception raised to a direct caller)
  hist          \* history: the calls made so far (not program state)

vars == <<questions, hints, submissions, reviews, threads, dmessages, sessions, cmessages,
          inflight, ids, clock, cache, feeds, fetching, req, resp, hist>>

qVars == <<questions, hints>>
sVars == <<submissions, reviews, req>>
dVars == <<threads, dmessages>>
cVars == <<sessions, cmessages, inflight>>
nVars == <<cache, feeds, fetching>>
hVars == <<hist>>

\* ------------------------------------------------------------ common values
Users == {1}                 \* rows of the users table (created by the auth routes)
UserIds == {1, 9}            \* user ids a request may carry
Null == "null"               \* SQL NULL / Python None

None == [some |-> FALSE]          \* an Optional request field left out or null
Some(v) == [some |-> TRUE, v |-> v]

\* f with key k removed / the rows of f that satisfy keep
Without(f, dead) == [k \in DOMAIN f \ dead |-> f[k]]
With(f, k, row) == [j \in DOMAIN f \cup {k} |-> IF j = k THEN row ELSE f[j]]

NoResp == [op |-> "none", status |-> 0, absent |-> FALSE, body |-> [k |-> "none"]]

Response(op, status, absent, body) ==
  [op |-> op, status |-> status, absent |-> absent, body |-> body]

IdleReq == [pc |-> "idle", user_id |-> 0, question_id |-> 0, sid |-> 0,
            collab |-> [kind |-> "none"], steps |-> <<>>, status |-> 0, review |-> None]

\* ================================================================ questions

Difficulties == {"Easy", "Medium", "Hard"}

\* QuestionRepository.create_question: the row and its children, one commit.
RepoCreateQuestion(title, description, difficulty_level, examples, constraints, test_cases) ==
  [title |-> title, description |-> description, difficulty_level |-> difficulty_level,
   examples |-> [i \in 1..Len(examples) |->
                   [input |-> examples[i].input, output |-> examples[i].output]],
   constraints |-> [i \in 1..Len(constraints) |-> [description |-> constraints[i]]],
   test_cases |-> [i \in 1..Len(test_cases) |->
                   [input |-> test_cases[i].input, exp_output |-> test_cases[i].exp_output]]]

\* QuestionDomain.create_question: ValueError for a bad difficulty level,
\* otherwise the repository insert.  (The example/test-case dicts handed in
\* are records that carry their "input"/"output" keys.)
DomainCreateQuestionOutcome(title, description, difficulty_level, examples, constraints, test_cases) ==
  IF difficulty_level \notin Difficulties
  THEN [raised |-> "ValueError", row |-> [k |-> "none"]]
  ELSE [raised |-> "none",
        row |-> RepoCreateQuestion(title, description, difficulty_level,
                                   examples, constraints, test_cases)]

\* str(constraint) of a pydantic QuestionConstraint: its field repr, not its
\* description.
StrOfConstraint(c) == <<"repr", c.id, c.question_id, c.description>>

\* Fields of the request model QuestionCreate (= QuestionBase).
QuestionCreateFields == {"title", "description", "examples", "constraints", "test_cases"}

\* Attribute access on the validated request body.
HasAttr(fields, name) == name \in fields

\* QuestionResponse (= QuestionBase + id, created_at, updated_at): what the
\* response model keeps of a question row.
QuestionResponseOf(qid, row) ==
  [id |-> qid, title |-> row.title, description |-> row.description,
   examples |-> row.examples, constraints |-> row.constraints,
   test_cases |-> row.test_cases]

\* domain.create_question called directly (the working path into the table).
DomainCreateQuestion(title, description, difficulty_level, examples, constraints, test_cases) ==
  /\ ids.question <= MaxQuestions
  /\ LET out == DomainCreateQuestionOutcome(title, description, difficulty_level,
                                            examples, constraints, test_cases)
     IN IF out.raised = "none"
        THEN /\ questions' = [q \in DOMAIN questions \cup {ids.question} |->
                               IF q = ids.question THEN out.row ELSE questions[q]]
             /\ ids' = [ids EXCEPT !.question = @ + 1]
             /\ resp' = Response("domain.create_question", 0, FALSE,
                                 [k |-> "question", id |-> ids.question])
        ELSE /\ UNCHANGED <<questions, ids>>
             /\ resp' = Response("domain.create_question", 0, FALSE,
                                 [k |-> "raised", exc |-> out.raised])
  /\ UNCHANGED <<hints, sVars, dVars, cVars, nVars, hVars, clock>>

\* POST /questions/ : the handler reads question.difficulty_level, an
\* attribute QuestionCreate does not have; the AttributeError is caught by
\* `except Exception` and becomes a 500.
RouterCreateQuestion(body) ==
  /\ IF ~HasAttr(QuestionCreateFields, "difficulty_level")
     THEN /\ resp' = Response("POST /questions/", 500, FALSE,
                              [k |-> "detail", sent |-> body])
          /\ UNCHANGED <<questions, ids>>
     ELSE LET out == DomainCreateQuestionOutcome(
                       body.title, body.description, body.difficulty_level,
                       body.examples,
                       [i \in 1..Len(body.constraints) |-> StrOfConstraint(body.constraints[i])],
                       body.test_cases)
          IN IF out.raised = "none"
             THEN /\ questions' = [q \in DOMAIN questions \cup {ids.question} |->
                                    IF q = ids.question THEN out.row ELSE questions[q]]
                  /\ ids' = [ids EXCEPT !.question = @ + 1]
                  /\ resp' = Response("POST /questions/", 201, FALSE,
                                      [k |-> "question", sent |-> body,
                                       got |-> QuestionResponseOf(ids.question, out.row)])
             ELSE /\ UNCHANGED <<questions, ids>>
                  /\ resp' = Response("POST /questions/", 400, FALSE,
                                      [k |-> "detail", sent |-> body])
  /\ UNCHANGED <<hints, sVars, dVars, cVars, nVars, hVars, clock>>

\* GET /questions/{id}
RouterGetQuestion(qid) ==
  /\ IF qid \notin DOMAIN questions
     THEN resp' = Response("GET /questions/{id}", 404, TRUE, [k |-> "detail"])
     ELSE resp' = Response("GET /questions/{id}", 200, FALSE,
                           [k |-> "question", got |-> QuestionResponseOf(qid, questions[qid])])
  /\ UNCHANGED <<qVars, sVars, dVars, cVars, nVars, hVars, ids, clock>>

\* GET /questions/ : `limit: int = Query(10, ge=1, le=1000)`,
\* `skip: int = Query(0, ge=0)`.
LimitMin == 1
LimitMax == 1000
QueryAccepts(skip, limit) == skip >= 0 /\ limit >= LimitMin /\ limit <= LimitMax

\* QuestionDomain.get_questions raises ValueError for skip < 0, limit < 1
\* and limit > 1000.
PaginationValid(skip, limit) == ~(skip < 0) /\ ~(limit < LimitMin) /\ ~(limit > LimitMax)

\* ORDER BY created_at DESC: questions are created one after the other, the
\* newest has the largest id.
RECURSIVE NewestQuestionsFirst(_)
NewestQuestionsFirst(qs) ==
  IF qs = {} THEN <<>>
  ELSE LET q == CHOOSE x \in qs : \A y \in qs : y <= x
       IN <<q>> \o NewestQuestionsFirst(qs \ {q})

\* .offset(skip).limit(limit)
OffsetLimit(rows, skip, limit) ==
  LET from == IF skip > 0 THEN skip ELSE 0
      left == IF Len(rows) > from THEN Len(rows) - from ELSE 0
      n == IF limit < left THEN (IF limit > 0 THEN limit ELSE 0) ELSE left
  IN [i \in 1..n |-> rows[from + i]]

\* QuestionRepository.get_all_questions and the handler's reply built from it.
get_all_questions(skip, limit) ==
  LET page == OffsetLimit(NewestQuestionsFirst(DOMAIN questions), skip, limit)
  IN Response("GET /questions/", 200, FALSE,
              [k |-> "questions", args |-> [skip |-> skip, limit |-> limit],
               total |-> Len(page),
               questions |-> [i \in 1..Len(page) |->
                                QuestionResponseOf(page[i], questions[page[i]])]])

\* The page for whatever skip and limit were given.
get_questions_unvalidated(skip, limit) == get_all_questions(skip, limit)

\* The reply of GET /questions/ : 422 from the parameter validation, 400 for
\* a ValueError of the domain, otherwise the page.
get_questions(skip, limit) ==
  IF ~QueryAccepts(skip, limit)
  THEN Response("GET /questions/", 422, FALSE,
                [k |-> "detail", args |-> [skip |-> skip, limit |-> limit]])
  ELSE IF ~PaginationValid(skip, limit)
  THEN Response("GET /questions/", 400, FALSE,
                [k |-> "detail", args |-> [skip |-> skip, limit |-> limit]])
  ELSE get_all_questions(skip, limit)

RouterGetQuestions(skip, limit) ==
  /\ resp' = get_questions(skip, limit)
  /\ UNCHANGED <<qVars, sVars, dVars, cVars, nVars, hVars, ids, clock>>

\* QuestionRepository.update_question: partial merge of the scalar fields;
\* a child collection that is not None replaces the previous children.
RepoUpdateQuestion(row, title, description, difficulty_level, examples, constraints, test_cases) ==
  [title |-> IF title.some THEN title.v ELSE row.title,
   description |-> IF description.some THEN description.v ELSE row.description,
   difficulty_level |-> IF difficulty_level.some THEN difficulty_level.v
                        ELSE row.difficulty_level,
   examples |-> IF examples.some
                THEN [i \in 1..Len(examples.v) |->
                        [input |-> examples.v[i].input, output |-> examples.v[i].output]]
                ELSE row.examples,
   constraints |-> IF constraints.some
                   THEN [i \in 1..Len(constraints.v) |-> [description |-> constraints.v[i]]]
                   ELSE row.constraints,
   test_cases |-> IF test_cases.some
                  THEN [i \in 1..Len(test_cases.v) |->
                          [input |-> test_cases.v[i].input,
                           exp_output |-> test_cases.v[i].exp_output]]
                  ELSE row.test_cases]

\* `x if question.xs else None` of the update handler: an empty list counts
\* as not supplied.
IfTruthy(xs) == IF xs.some /\ Len(xs.v) > 0 THEN xs ELSE None

\* PUT /questions/{id}.  The constraints comprehension iterates
\* question.constraints even when it is None (TypeError -> 500); a missing
\* question is a ValueError of the domain, which this handler maps to 400.
RouterUpdateQuestion(qid, body) ==
  /\ IF ~body.constraints.some
     THEN /\ resp' = Response("PUT /questions/{id}", 500, qid \notin DOMAIN questions,
                              [k |-> "detail"])
          /\ UNCHANGED questions
     ELSE IF qid \notin DOMAIN questions
     THEN /\ resp' = Response("PUT /questions/{id}", 400, TRUE, [k |-> "detail"])
          /\ UNCHANGED questions
     ELSE IF body.difficulty_level.some /\ body.difficulty_level.v \notin Difficulties
     THEN /\ resp' = Response("PUT /questions/{id}", 400, FALSE, [k |-> "detail"])
          /\ UNCHANGED questions
     ELSE LET row == RepoUpdateQuestion(
                       questions[qid], body.title, body.description, body.difficulty_level,
                       IfTruthy(body.examples),
                       Some([i \in 1..Len(body.constraints.v) |->
                               StrOfConstraint(body.constraints.v[i])]),
                       IfTruthy(body.test_cases))
          IN /\ questions' = [questions EXCEPT ![qid] = row]
             /\ resp' = Response("PUT /questions/{id}", 200, FALSE,
                                 [k |-> "question", got |-> QuestionResponseOf(qid, row)])
  /\ UNCHANGED <<hints, sVars, dVars, cVars, nVars, hVars, ids, clock>>

\* Rows removed with a question: its children are part of the row; the
\* foreign keys of submissions and discussion threads are ON DELETE CASCADE,
\* and so are those of their reviews and messages.
\* The rows a question's deletion would remove were the foreign key
\* declared without ON DELETE CASCADE.
SubmissionsKeptOnDelete(qid) == {}

SubmissionsOfQuestion(qid) == {s \in DOMAIN submissions : submissions[s].question_id = qid}
ThreadsOfQuestion(qid) == {t \in DOMAIN threads : threads[t].question_id = qid}

\* The reviews a question's deletion would remove were ai_reviews.submission_id
\* declared without ON DELETE CASCADE.
ReviewsKeptOnDelete(qid) == {}

ReviewsOfQuestion(qid) ==
  {r \in DOMAIN reviews : reviews[r].submission_id \in SubmissionsOfQuestion(qid)}

\* DELETE /questions/{id}
RouterDeleteQuestion(qid) ==
  /\ IF qid \notin DOMAIN questions
     THEN /\ resp' = Response("DELETE /questions/{id}", 404, TRUE, [k |-> "detail"])
          /\ UNCHANGED <<questions, hints, submissions, reviews, threads, dmessages>>
     ELSE /\ questions' = Without(questions, {qid})
          /\ hints' = Without(hints, {h \in DOMAIN hints : hints[h].question_id = qid})
          /\ submissions' = Without(submissions, SubmissionsOfQuestion(qid))
          /\ reviews' = Without(reviews, ReviewsOfQuestion(qid))
          /\ threads' = Without(threads, ThreadsOfQuestion(qid))
          /\ dmessages' = Without(dmessages, {m \in DOMAIN dmessages :
                                   dmessages[m].thread_id \in ThreadsOfQuestion(qid)})
          /\ resp' = Response("DELETE /questions/{id}", 204, FALSE, [k |-> "none"])
  /\ UNCHANGED <<req, cVars, nVars, hVars, ids, clock>>

\* ==================================================================== hints

\* Columns of ai_hint_requests that are NOT NULL and have no default.
HintNotNull == {"user_id", "question_id", "hint_response"}

\* The keywords create_hint_request gives the AIHintRequest constructor.
HintKeywords == {"user_id", "question_id"}

\* INSERT INTO ai_hint_requests: the NOT NULL columns and the foreign keys.
HintInsertAccepts(kwargs, user_id, question_id) ==
  /\ HintNotNull \subseteq kwargs
  /\ user_id \in Users
  /\ question_id \in DOMAIN questions

\* What hint_chain.arun may do: answer with text, or raise.
HintOutcomes == {"text", "raises"}

HintResult(status, table, called, inserted) ==
  [status |-> status, hints |-> table, called |-> called, inserted |-> inserted]

\* get_hint going straight to the insert, without looking the question up.
get_hint_unchecked(user_id, question_id, llm) ==
  IF ~HintInsertAccepts(HintKeywords, user_id, question_id)
  THEN HintResult(500, hints, FALSE, FALSE)
  ELSE HintResult(IF llm = "raises" THEN 500 ELSE 200,
                  With(hints, ids.hint, [user_id |-> user_id, question_id |-> question_id,
                                         request_time |-> clock]),
                  TRUE, TRUE)

\* HintDomain.get_hint: create_hint_request (the question is looked up first,
\* then the row is inserted and committed), get_question_by_id, generate_hint.
get_hint(user_id, question_id, llm) ==
  IF question_id \notin DOMAIN questions
  THEN HintResult(404, hints, FALSE, FALSE)
  ELSE IF ~HintInsertAccepts(HintKeywords, user_id, question_id)
  THEN HintResult(500, hints, FALSE, FALSE)
  ELSE HintResult(IF llm = "raises" THEN 500 ELSE 200,
                  With(hints, ids.hint, [user_id |-> user_id, question_id |-> question_id,
                                         request_time |-> clock]),
                  TRUE, TRUE)

GetHint(user_id, question_id, llm) ==
  /\ LET out == get_hint(user_id, question_id, llm)
     IN /\ hints' = out.hints
        /\ ids' = IF out.inserted THEN [ids EXCEPT !.hint = @ + 1] ELSE ids
        /\ resp' = Response("get_hint", out.status, out.status = 404,
                            [k |-> "hint", user_id |-> user_id, question_id |-> question_id,
                             called |-> out.called])
  /\ UNCHANGED <<questions, sVars, dVars, cVars, nVars, hVars, clock>>

\* ====================================================== the collaborator's text

\* A response text is a sequence of tokens: "lb" and "rb" are the braces,
\* "m" the member list of a JSON object (its content is `obj`), "a" a JSON
\* value that is not an object (an array, a number, null), "w" prose.
Tokens == {"lb", "rb", "m", "a", "w"}

TextShapes ==
  { <<>>, <<"w">>, <<"a">>, <<"w", "a">>,
    <<"lb", "rb">>, <<"w", "lb", "rb">>, <<"lb", "w", "rb">>, <<"rb", "w", "lb">>,
    <<"lb", "m", "rb">>, <<"w", "lb", "m", "rb", "w">>, <<"w", "lb", "m", "rb", "lb">>,
    <<"lb", "m">>, <<"lb", "m", "rb", "w", "rb">>, <<"lb", "lb", "m", "rb">> }

EmptyObject == [has_summary |-> FALSE, total |-> -1, passed |-> -1, ntests |-> 0]

\* Contents of a returned object: the "summary" member with its
\* "total_tests" and "passed" (-1: the key is missing) and the length of
\* the "test_results" list.
Members ==
  {[has_summary |-> TRUE, total |-> t, passed |-> p, ntests |-> t] :
      t \in 0..MaxTests, p \in 0..MaxTests}
  \cup {[has_summary |-> TRUE, total |-> -1, passed |-> -1, ntests |-> n] : n \in 0..1}
  \cup {[has_summary |-> FALSE, total |-> -1, passed |-> -1, ntests |-> n] : n \in 0..1}

HasMember(toks) == \E i \in 1..Len(toks) : toks[i] = "m"

Texts ==
  {[toks |-> sh, obj |-> EmptyObject] : sh \in {x \in TextShapes : ~HasMember(x)}}
  \cup {[toks |-> sh, obj |-> o] : sh \in {x \in TextShapes : HasMember(x)}, o \in Members}

\* The collaborator either raises (timeout, transport error) or returns text.
Collab == {[kind |-> "raise"]} \cup {[kind |-> "text", text |-> t] : t \in Texts}

\* One text of every shape (for steps that do not look into the object).
ShapeCollab ==
  {[kind |-> "raise"]}
  \cup {[kind |-> "text", text |-> [toks |-> sh, obj |-> EmptyObject]] : sh \in TextShapes}

\* json.loads: the tokens must be exactly one JSON value.
JsonLoads(toks, obj) ==
  IF toks = <<"a">> THEN [ok |-> TRUE, isdict |-> FALSE, obj |-> EmptyObject]
  ELSE IF toks = <<"lb", "rb">> THEN [ok |-> TRUE, isdict |-> TRUE, obj |-> EmptyObject]
  ELSE IF toks = <<"lb", "m", "rb">> THEN [ok |-> TRUE, isdict |-> TRUE, obj |-> obj]
  ELSE [ok |-> FALSE, isdict |-> FALSE, obj |-> EmptyObject]

\* re.search(r'({[\s\S]*})', text): leftmost "{", greedy up to the last "}".
RegexSearch(toks) ==
  LET lbs == {i \in 1..Len(toks) : toks[i] = "lb"}
      rbs == {i \in 1..Len(toks) : toks[i] = "rb"}
  IN IF lbs = {} \/ rbs = {} THEN [found |-> FALSE, group |-> <<>>]
     ELSE LET first == CHOOSE i \in lbs : \A j \in lbs : i <= j
              last == CHOOSE i \in rbs : \A j \in rbs : j <= i
          IN IF first < last
             THEN [found |-> TRUE, group |-> SubSeq(toks, first, last)]
             ELSE [found |-> FALSE, group |-> <<>>]

\* The two-stage parse: strict, then the brace span, then the default.
ParseWithFallback(text, default) ==
  LET direct == JsonLoads(text.toks, text.obj)
      m == RegexSearch(text.toks)
      inner == JsonLoads(m.group, text.obj)
  IN IF direct.ok THEN direct
     ELSE IF m.found /\ inner.ok THEN inner
     ELSE [ok |-> TRUE, isdict |-> TRUE, obj |-> default]

\* Neither stage yields a value.
Unparseable(text) ==
  /\ ~JsonLoads(text.toks, text.obj).ok
  /\ ~(RegexSearch(text.toks).found /\ JsonLoads(RegexSearch(text.toks).group, text.obj).ok)

\* ============================================================== submissions

NewSubmission(u, q) ==
  [user_id |-> u, question_id |-> q, result |-> Null,
   test_cases_passed |-> 0, total_test_cases |-> 0, compliance_check |-> FALSE]

\* The foreign keys of a submissions row (users.id, questions.id).
SubmissionForeignKeysHold(u, q) == u \in Users /\ q \in DOMAIN questions

\* What a repository/domain call leaves behind: whether it returned (ok) or
\* raised an HTTPException (status), whether the entity it names was
\* absent, the tables after it, and what it computed on the way (info).
Outcome(ok, status, absent, subs, revs, info) ==
  [ok |-> ok, status |-> status, absent |-> absent, subs |-> subs, revs |-> revs,
   info |-> info]

NoInfo == [k |-> "none"]

\* An insert that first looks for a row of the same user and question and
\* returns it.
create_submission_once(u, q) ==
  IF \E s \in DOMAIN submissions :
       submissions[s].user_id = u /\ submissions[s].question_id = q
  THEN LET s == CHOOSE x \in DOMAIN submissions :
                  submissions[x].user_id = u /\ submissions[x].question_id = q
       IN Outcome(TRUE, 201, FALSE, submissions, reviews, [k |-> "submission", id |-> s])
  ELSE IF u \in Users /\ q \in DOMAIN questions
  THEN Outcome(TRUE, 201, FALSE, With(submissions, ids.submission, NewSubmission(u, q)),
               reviews, [k |-> "submission", id |-> ids.submission])
  ELSE Outcome(FALSE, 500, q \notin DOMAIN questions, submissions, reviews, NoInfo)

\* SubmissionRepository.create_submission: insert and commit; an
\* IntegrityError rolls back and is re-raised as a 500.
create_submission(u, q) ==
  IF SubmissionForeignKeysHold(u, q)
  THEN Outcome(TRUE, 201, FALSE, With(submissions, ids.submission, NewSubmission(u, q)),
               reviews, [k |-> "submission", id |-> ids.submission])
  ELSE Outcome(FALSE, 500, q \notin DOMAIN questions, submissions, reviews, NoInfo)

\* SubmissionRepository.get_submission
get_submission(sid) ==
  IF sid \notin DOMAIN submissions
  THEN Outcome(FALSE, 404, TRUE, submissions, reviews, NoInfo)
  ELSE Outcome(TRUE, 200, FALSE, submissions, reviews,
               [k |-> "submission", id |-> sid, row |-> submissions[sid]])

\* SubmissionRepository.update_submission: setattr for every field that was
\* set in the request (exclude_unset), commit.
MergeSubmission(row, upd) ==
  [user_id |-> row.user_id, question_id |-> row.question_id,
   result |-> IF upd.result.some THEN upd.result.v ELSE row.result,
   test_cases_passed |-> IF upd.test_cases_passed.some THEN upd.test_cases_passed.v
                         ELSE row.test_cases_passed,
   total_test_cases |-> IF upd.total_test_cases.some THEN upd.total_test_cases.v
                        ELSE row.total_test_cases,
   compliance_check |-> IF upd.compliance_check.some THEN upd.compliance_check.v
                        ELSE row.compliance_check]

update_submission(sid, upd) ==
  IF sid \notin DOMAIN submissions
  THEN Outcome(FALSE, 404, TRUE, submissions, reviews, NoInfo)
  ELSE LET row == MergeSubmission(submissions[sid], upd)
       IN Outcome(TRUE, 200, FALSE, [submissions EXCEPT ![sid] = row], reviews,
                  [k |-> "submission", id |-> sid, row |-> row])

\* pass_rate = passed / total and its comparison with 1.0 and 0.8.
DeriveResult(passed_tests, total_tests) ==
  IF total_tests > 0
  THEN IF passed_tests = total_tests THEN "Accepted"
       ELSE IF 5 * passed_tests >= 4 * total_tests THEN "Partially Accepted"
       ELSE "Failed"
  ELSE "Error"

\* summary.get("total_tests", len(result_json.get("test_results", [])))
\* and summary.get("passed", 0)
TotalTestsOf(obj) == IF obj.has_summary /\ obj.total >= 0 THEN obj.total ELSE obj.ntests
PassedTestsOf(obj) == IF obj.has_summary /\ obj.passed >= 0 THEN obj.passed ELSE 0

CompileDefault == [has_summary |-> TRUE, total |-> 0, passed |-> 0, ntests |-> 0]
RecommendDefault == [has_summary |-> FALSE, total |-> -1, passed |-> -1, ntests |-> 0,
                     error |-> "Failed to parse recommendations"]

\* The mapped attributes of AIReview; the declarative constructor raises
\* TypeError for any other keyword.
AIReviewAttributes ==
  {"id", "submission_id", "review_text", "code_quality_score", "compliance_status",
   "test_results", "suggestions", "security_issues", "performance_notes", "created_at",
   "submission"}
AIReviewNotNull == {"submission_id", "review_text"}

\* The keywords compile_code and get_code_recommendations build their
\* AIReview with.
ReviewKeywords == {"submission_id", "review_type", "content", "test_results", "score"}

ConstructorAccepts(kwargs) == kwargs \subseteq AIReviewAttributes
InsertAccepts(kwargs) == AIReviewNotNull \subseteq kwargs

\* json.dumps of the question's children: plain dicts serialize, ORM rows
\* or pydantic objects do not (TypeError); an empty list always does.
QuestionDatas == {"dicts", "rows", "empty"}
JsonDumps(qdata) == qdata # "rows"

\* SubmissionRepository.compile_code
compile_code(sid, qdata, collab) ==
  IF sid \notin DOMAIN submissions
  THEN Outcome(FALSE, 404, TRUE, submissions, reviews, NoInfo)
  ELSE IF ~JsonDumps(qdata)
  THEN Outcome(FALSE, 500, FALSE, submissions, reviews, [k |-> "compile", sid |-> sid, called |-> FALSE])
  ELSE IF collab.kind = "raise"
  THEN Outcome(FALSE, 500, FALSE, submissions, reviews, [k |-> "compile", sid |-> sid, called |-> TRUE])
  ELSE LET parsed == ParseWithFallback(collab.text, CompileDefault)
       IN IF ~parsed.isdict
          THEN Outcome(FALSE, 500, FALSE, submissions, reviews,
                       [k |-> "compile", sid |-> sid, called |-> TRUE])
          ELSE LET total_tests == TotalTestsOf(parsed.obj)
                   passed_tests == PassedTestsOf(parsed.obj)
                   assigned == [total_test_cases |-> total_tests,
                                test_cases_passed |-> passed_tests,
                                result |-> DeriveResult(passed_tests, total_tests)]
                   row == [submissions[sid] EXCEPT
                             !.total_test_cases = assigned.total_test_cases,
                             !.test_cases_passed = assigned.test_cases_passed,
                             !.result = assigned.result]
               IN IF ConstructorAccepts(ReviewKeywords) /\ InsertAccepts(ReviewKeywords)
                  THEN Outcome(TRUE, 200, FALSE, [submissions EXCEPT ![sid] = row],
                               With(reviews, ids.review,
                                    [submission_id |-> sid, kind |-> "test_results",
                                     payload |-> parsed.obj, created_at |-> clock]),
                               [k |-> "compile", sid |-> sid, called |-> TRUE, assigned |-> assigned])
                  ELSE Outcome(FALSE, 500, FALSE, submissions, reviews,
                               [k |-> "compile", sid |-> sid, called |-> TRUE, assigned |-> assigned])

\* SubmissionRepository.get_code_recommendations
get_code_recommendations(sid, qdata, collab) ==
  IF sid \notin DOMAIN submissions
  THEN Outcome(FALSE, 404, TRUE, submissions, reviews, NoInfo)
  ELSE IF ~JsonDumps(qdata)
  THEN Outcome(FALSE, 500, FALSE, submissions, reviews, [k |-> "recommend", sid |-> sid, called |-> FALSE])
  ELSE LET prompt == [test_cases_passed |-> submissions[sid].test_cases_passed,
                      total_test_cases |-> submissions[sid].total_test_cases,
                      result |-> submissions[sid].result]
       IN IF collab.kind = "raise"
          THEN Outcome(FALSE, 500, FALSE, submissions, reviews,
                       [k |-> "recommend", sid |-> sid, called |-> TRUE, prompt |-> prompt])
          ELSE LET parsed == ParseWithFallback(collab.text, RecommendDefault)
               IN IF ConstructorAccepts(ReviewKeywords) /\ InsertAccepts(ReviewKeywords)
                  THEN Outcome(TRUE, 200, FALSE, submissions,
                               With(reviews, ids.review,
                                    [submission_id |-> sid, kind |-> "recommendation",
                                     payload |-> parsed.obj, created_at |-> clock]),
                               [k |-> "recommend", sid |-> sid, called |-> TRUE, prompt |-> prompt,
                                recommendations |-> parsed.obj])
                  ELSE Outcome(FALSE, 500, FALSE, submissions, reviews,
                               [k |-> "recommend", sid |-> sid, called |-> TRUE, prompt |-> prompt,
                                recommendations |-> parsed.obj])

\* pydantic (v2) Config keys of the response models: from_orm needs
\* from_attributes; the v1 key orm_mode is not honoured.
SubmissionOutConfig == {"from_attributes", "arbitrary_types_allowed"}
AIReviewOutConfig == {"orm_mode"}
FromOrmAccepts(config) == "from_attributes" \in config

\* Submission.ai_reviews is a lazy relationship and no query of the
\* repository loads it; SubmissionWithReviews.from_orm reads it, and the load
\* it triggers cannot run outside the AsyncSession's greenlet (MissingGreenlet).
EagerlyLoaded == {}
Loaded(relationship) == relationship \in EagerlyLoaded

ReviewsOf(sid) == {r \in DOMAIN reviews : reviews[r].submission_id = sid}

\* ORDER BY created_at DESC
RECURSIVE NewestFirst(_)
NewestFirst(rs) ==
  IF rs = {} THEN <<>>
  ELSE LET r == CHOOSE x \in rs : \A y \in rs : reviews[y].created_at <= reviews[x].created_at
       IN <<r>> \o NewestFirst(rs \ {r})

\* SubmissionRepository.get_submission_with_reviews
get_submission_with_reviews(sid) ==
  IF sid \notin DOMAIN submissions
  THEN Outcome(FALSE, 404, TRUE, submissions, reviews, NoInfo)
  ELSE IF ReviewsOf(sid) # {} /\ ~FromOrmAccepts(AIReviewOutConfig)
  THEN Outcome(FALSE, 500, FALSE, submissions, reviews, NoInfo)
  ELSE IF ~Loaded("ai_reviews")
  THEN Outcome(FALSE, 500, FALSE, submissions, reviews, NoInfo)
  ELSE Outcome(TRUE, 200, FALSE, submissions, reviews,
               [k |-> "with_reviews", id |-> sid, ai_reviews |-> NewestFirst(ReviewsOf(sid))])

\* SubmissionDomain holds a QuestionDomain built on the request's
\* AsyncSession.  QuestionRepository.get_question_by_id calls
\* self.db.query(...), which an AsyncSession does not have, and the domain
\* awaits the (synchronous) result: the lookup raises in either case.
AsyncSessionAttributes == {"execute", "add", "commit", "refresh", "rollback", "delete"}
QuestionLookupWorks == HasAttr(AsyncSessionAttributes, "query")

\* `except Exception` of the domain methods: whatever was raised, the 404
\* of a missing submission included, leaves as a 500.
AsServerError(out) == IF out.ok THEN out ELSE [out EXCEPT !.status = 500]

QuestionDataOf(qid) ==
  IF Len(questions[qid].test_cases) = 0 THEN "empty" ELSE "rows"

\* SubmissionDomain.compile_submission
compile_submission(sid, collab) ==
  IF ~get_submission(sid).ok THEN AsServerError(get_submission(sid))
  ELSE IF ~QuestionLookupWorks
  THEN Outcome(FALSE, 500, FALSE, submissions, reviews, [k |-> "compile", sid |-> sid, called |-> FALSE])
  ELSE AsServerError(compile_code(sid, QuestionDataOf(submissions[sid].question_id), collab))

\* SubmissionDomain.get_code_recommendations
recommend_submission(sid, collab) ==
  IF ~get_submission(sid).ok THEN AsServerError(get_submission(sid))
  ELSE IF ~QuestionLookupWorks
  THEN Outcome(FALSE, 500, FALSE, submissions, reviews, [k |-> "recommend", sid |-> sid, called |-> FALSE])
  ELSE AsServerError(get_code_recommendations(
                       sid, QuestionDataOf(submissions[sid].question_id), collab))

\* The tables and sequences after a call, and its response.
Apply(op, out) ==
  /\ submissions' = out.subs
  /\ reviews' = out.revs
  /\ ids' = [ids EXCEPT !.submission = IF ids.submission \in DOMAIN out.subs THEN @ + 1 ELSE @,
                        !.review = IF ids.review \in DOMAIN out.revs THEN @ + 1 ELSE @]
  /\ resp' = Response(op, out.status, out.absent, out.info)

\* POST /submissions/
CreateSubmission(u, q) ==
  /\ ids.submission <= MaxSubmissions
  /\ Apply("POST /submissions/", create_submission(u, q))
  /\ UNCHANGED <<qVars, dVars, cVars, nVars, hVars, clock, req>>

\* GET /submissions/{id}
GetSubmission(sid) ==
  /\ Apply("GET /submissions/{id}", get_submission(sid))
  /\ UNCHANGED <<qVars, dVars, cVars, nVars, hVars, clock, req>>

\* GET /submissions/{id}/with-reviews
GetSubmissionWithReviews(sid) ==
  /\ Apply("GET /submissions/{id}/with-reviews", get_submission_with_reviews(sid))
  /\ UNCHANGED <<qVars, dVars, cVars, nVars, hVars, clock, req>>

\* PUT /submissions/{id}
UpdateSubmission(sid, upd) ==
  /\ Apply("PUT /submissions/{id}", update_submission(sid, upd))
  /\ UNCHANGED <<qVars, dVars, cVars, nVars, hVars, clock, req>>

\* POST /submissions/compile/{id}
CompileSubmission(sid, collab) ==
  /\ Apply("POST /submissions/compile/{id}", compile_submission(sid, collab))
  /\ UNCHANGED <<qVars, dVars, cVars, nVars, hVars, clock, req>>

\* POST /submissions/recommend/{id}
GetRecommendations(sid, collab) ==
  /\ Apply("POST /submissions/recommend/{id}", recommend_submission(sid, collab))
  /\ UNCHANGED <<qVars, dVars, cVars, nVars, hVars, clock, req>>

\* SubmissionRepository.compile_code / get_code_recommendations called by a
\* caller that has the question data at hand.
CompileCode(sid, qdata, collab) ==
  /\ Apply("compile_code", compile_code(sid, qdata, collab))
  /\ UNCHANGED <<qVars, dVars, cVars, nVars, hVars, clock, req>>

GetCodeRecommendations(sid, qdata, collab) ==
  /\ Apply("get_code_recommendations", get_code_recommendations(sid, qdata, collab))
  /\ UNCHANGED <<qVars, dVars, cVars, nVars, hVars, clock, req>>

\* compile_code as the two halves its await of the collaborator separates:
\* lines 218-280 read the submission and send the prompt (the request then
\* waits, and other requests run), lines 283-331 parse the answer, assign,
\* insert the review and commit.  No lock is taken and no version is
\* compared; `seen` is the row as the first half read it.
CompileBegin(sid, qdata, collab) ==
  /\ req.pc = "idle"
  /\ sid \in DOMAIN submissions
  /\ JsonDumps(qdata)
  /\ req' = [pc |-> "llm", sid |-> sid, qdata |-> qdata, collab |-> collab,
             seen |-> submissions[sid]]
  /\ UNCHANGED <<qVars, submissions, reviews, dVars, cVars, nVars, hVars, ids, clock, resp>>

CompileEnd ==
  /\ req.pc = "llm"
  /\ Apply("compile_code", compile_code(req.sid, req.qdata, req.collab))
  /\ req' = IdleReq
  /\ UNCHANGED <<qVars, dVars, cVars, nVars, hVars, clock>>

\* ------------------------------------------------ POST /submissions/submit-and-review

PipelineOrder == <<"create", "compile", "recommend", "fetch">>

\* The next statement when a raised exception does not end the request.
AfterStepRegardless(step, ok) ==
  IF step = "create" THEN "compile"
  ELSE IF step = "compile" THEN "recommend"
  ELSE IF step = "recommend" THEN "fetch"
  ELSE "done"

\* The statement reached after a step of submit_and_review: the next await
\* when the step returned, the except clause when it raised.
AfterStep(step, ok) ==
  IF ~ok THEN "done"
  ELSE IF step = "create" THEN "compile"
  ELSE IF step = "compile" THEN "recommend"
  ELSE IF step = "recommend" THEN "fetch"
  ELSE "done"

\* What the running step does.
StepOutcome(r) ==
  IF r.pc = "create" THEN create_submission(r.user_id, r.question_id)
  ELSE IF r.pc = "compile" THEN compile_submission(r.sid, r.collab)
  ELSE IF r.pc = "recommend" THEN recommend_submission(r.sid, r.collab)
  ELSE get_submission_with_reviews(r.sid)

\* The request arrives (body validated as CodeSubmitRequest).
SubmitArrive(u, q, collab) ==
  /\ req.pc \in {"idle", "done"}
  /\ ids.submission <= MaxRequests
  /\ req' = [pc |-> "create", user_id |-> u, question_id |-> q, sid |-> 0,
             collab |-> collab, steps |-> <<>>, status |-> 0, review |-> None]
  /\ UNCHANGED <<qVars, submissions, reviews, dVars, cVars, nVars, hVars, ids, clock, resp>>

\* The request runs its next step to the following await or to its end.
SubmitStep ==
  /\ req.pc \in {"create", "compile", "recommend", "fetch"}
  /\ req.pc = "create" => ids.submission <= MaxRequests
  /\ LET out == StepOutcome(req)
         next == AfterStep(req.pc, out.ok)
         status == IF ~out.ok THEN 500 ELSE IF next = "done" THEN 200 ELSE 0
         review == IF out.ok /\ req.pc = "fetch" /\ Len(out.info.ai_reviews) > 0
                   THEN Some(out.info.ai_reviews[1]) ELSE None
     IN /\ req' = [req EXCEPT !.pc = next,
                              !.sid = IF req.pc = "create" /\ out.ok THEN out.info.id ELSE @,
                              !.steps = Append(@, [name |-> req.pc, ok |-> out.ok]),
                              !.status = status,
                              !.review = review]
        /\ submissions' = out.subs
        /\ reviews' = out.revs
        /\ ids' = [ids EXCEPT
                     !.submission = IF ids.submission \in DOMAIN out.subs THEN @ + 1 ELSE @,
                     !.review = IF ids.review \in DOMAIN out.revs THEN @ + 1 ELSE @]
        /\ resp' = IF next = "done"
                   THEN Response("POST /submissions/submit-and-review", status,
                                 out.absent, [k |-> "submit", sid |-> req'.sid,
                                              review |-> review])
                   ELSE resp
  /\ UNCHANGED <<qVars, dVars, cVars, nVars, hVars, clock>>

\* ================================================================== reviews

\* What the JSON column ai_reviews.test_results can hold: NULL, a string
\* (which may or may not be JSON text), or a JSON value stored natively.  A
\* JSON value is a list of items or an object; an item is valid when
\* TestResult(**item) accepts it.
NoBlob == [type |-> "null"]
StrBlob(parses, value) == [type |-> "str", parses |-> parses, value |-> value]
NativeBlob(value) == [type |-> "native", value |-> value]
ListValue(items) == [type |-> "list", items |-> items]
ObjectValue == [type |-> "object"]
NoValue == [type |-> "none"]

TestPassed == [test_name |-> "t", passed |-> TRUE, valid |-> TRUE]
TestFailed == [test_name |-> "u", passed |-> FALSE, valid |-> TRUE]
TestWithoutName == [passed |-> TRUE, valid |-> FALSE]

\* json.dumps([t.dict() for t in review_data.test_results])
DumpTestResults(tests) == StrBlob(TRUE, ListValue(tests))

\* The typed list a response carries.
TypedTests(items) ==
  [i \in 1..Len(items) |-> [test_name |-> items[i].test_name, passed |-> items[i].passed]]

\* ReviewRepository._convert_to_response: json.loads of the stored value and
\* TestResult(**item) for each item.  Only json.JSONDecodeError is caught:
\* a value that is not a string (TypeError of json.loads), JSON text that is
\* not a list of objects (TypeError of **) and an item TestResult refuses
\* (ValidationError) all propagate.
convert_to_response(row) ==
  LET b == row.test_results
  IN IF b.type = "null" THEN [raised |-> FALSE, test_results |-> <<>>]
     ELSE IF b.type # "str" THEN [raised |-> TRUE]
     ELSE IF ~b.parses THEN [raised |-> FALSE, test_results |-> <<>>]
     ELSE IF b.value.type # "list" THEN [raised |-> TRUE]
     ELSE IF \E i \in 1..Len(b.value.items) : ~b.value.items[i].valid THEN [raised |-> TRUE]
     ELSE [raised |-> FALSE, test_results |-> TypedTests(b.value.items)]

ReviewRow(sid, blob) ==
  [submission_id |-> sid, kind |-> "review", test_results |-> blob, created_at |-> clock]

\* Every test counted as passed.
PassedCountAll(tests) == Len(tests)

PassedCount(tests) == Cardinality({i \in 1..Len(tests) : tests[i].passed})

\* ReviewRepository.create_review: 404 for a missing submission; the review
\* row is committed, then the submission's counts and compliance flag in a
\* second commit.
create_review(sid, tests, compliance_status) ==
  IF sid \notin DOMAIN submissions
  THEN Outcome(FALSE, 404, TRUE, submissions, reviews, NoInfo)
  ELSE LET blob == IF Len(tests) > 0 THEN DumpTestResults(tests) ELSE NoBlob
           row == ReviewRow(sid, blob)
           sub == [submissions[sid] EXCEPT
                     !.test_cases_passed = IF Len(tests) > 0 THEN PassedCount(tests) ELSE @,
                     !.total_test_cases = IF Len(tests) > 0 THEN Len(tests) ELSE @,
                     !.compliance_check = IF compliance_status.some THEN compliance_status.v
                                          ELSE FALSE]
           out == convert_to_response(row)
       IN Outcome(~out.raised, IF out.raised THEN 500 ELSE 201, FALSE,
                  [submissions EXCEPT ![sid] = sub], With(reviews, ids.review, row),
                  [k |-> "review", id |-> ids.review, stored |-> blob, out |-> out])

\* ReviewRepository.get_review
get_review(rid) ==
  IF rid \notin DOMAIN reviews
  THEN Outcome(FALSE, 404, TRUE, submissions, reviews, NoInfo)
  ELSE LET out == convert_to_response(reviews[rid])
       IN Outcome(~out.raised, IF out.raised THEN 500 ELSE 200, FALSE, submissions, reviews,
                  [k |-> "review", id |-> rid, stored |-> reviews[rid].test_results,
                   out |-> out])

\* ReviewRepository.get_reviews_by_submission
get_reviews_by_submission(sid) ==
  LET rs == NewestFirst(ReviewsOf(sid))
      outs == [i \in 1..Len(rs) |-> convert_to_response(reviews[rs[i]])]
      raised == \E i \in 1..Len(rs) : outs[i].raised
  IN Outcome(~raised, IF raised THEN 500 ELSE 200, FALSE, submissions, reviews,
             [k |-> "reviews", sid |-> sid, ids |-> rs, outs |-> outs])

CreateReview(sid, tests, compliance_status) ==
  /\ ids.review <= MaxReviews
  /\ Apply("create_review", create_review(sid, tests, compliance_status))
  /\ UNCHANGED <<qVars, dVars, cVars, nVars, hVars, clock, req>>

GetReview(rid) ==
  /\ Apply("get_review", get_review(rid))
  /\ UNCHANGED <<qVars, dVars, cVars, nVars, hVars, clock, req>>

GetReviewsBySubmission(sid) ==
  /\ Apply("get_reviews_by_submission", get_reviews_by_submission(sid))
  /\ UNCHANGED <<qVars, dVars, cVars, nVars, hVars, clock, req>>

\* _convert_to_response applied to a review row holding the given value.
ConvertToResponse(sid, blob) ==
  /\ sid \in DOMAIN submissions
  /\ resp' = Response("_convert_to_response", 0, FALSE,
                      [k |-> "converted", stored |-> blob,
                       out |-> convert_to_response(ReviewRow(sid, blob))])
  /\ UNCHANGED <<qVars, sVars, dVars, cVars, nVars, hVars, ids, clock>>

\* ============================================================== discussions

\* `not content or not content.strip()`
Blank(text) == text \in {"", " "}

ThreadForeignKeysHold(q, u) == q \in DOMAIN questions /\ u \in Users

DOutcome(ok, status, absent, ths, msgs, info) ==
  [ok |-> ok, status |-> status, absent |-> absent, ths |-> ths, msgs |-> msgs, info |-> info]

\* DiscussionRepository.create_discussion_thread
create_discussion_thread(q, u, title) ==
  IF ThreadForeignKeysHold(q, u)
  THEN DOutcome(TRUE, 200, FALSE,
                With(threads, ids.thread,
                     [question_id |-> q, user_id |-> u, title |-> title,
                      updated_at |-> Some(clock)]),
                dmessages, [k |-> "thread", id |-> ids.thread])
  ELSE DOutcome(FALSE, 500, q \notin DOMAIN questions, threads, dmessages, NoInfo)

\* The same call without the thread lookup of lines 37-45.
create_discussion_message_unchecked(ths, t, u, content) ==
  DOutcome(TRUE, 200, FALSE, ths,
           With(dmessages, ids.dmessage,
                [thread_id |-> t, user_id |-> u, content |-> content,
                 created_at |-> clock]),
           [k |-> "message", id |-> ids.dmessage])

\* DiscussionRepository.create_discussion_message, ths being the thread table
\* the session sees: 404 (after a rollback) when the thread is missing;
\* otherwise the message is added, the thread's updated_at is assigned None,
\* and both are committed together.
create_discussion_message(ths, t, u, content) ==
  IF t \notin DOMAIN ths
  THEN DOutcome(FALSE, 404, TRUE, ths, dmessages, NoInfo)
  ELSE IF u \notin Users
  THEN DOutcome(FALSE, 500, FALSE, ths, dmessages, NoInfo)
  ELSE DOutcome(TRUE, 200, FALSE,
                [ths EXCEPT ![t].updated_at = None],
                With(dmessages, ids.dmessage,
                     [thread_id |-> t, user_id |-> u, content |-> content,
                      created_at |-> clock]),
                [k |-> "message", id |-> ids.dmessage])

\* DiscussDomain.create_message: a blank content is a ValueError, which no
\* handler of the route catches (the global handler answers 500).
create_message(t, u, content) ==
  IF Blank(content)
  THEN DOutcome(FALSE, 500, t \notin DOMAIN threads, threads, dmessages, NoInfo)
  ELSE create_discussion_message(threads, t, u, content)

\* DiscussDomain.start_new_discussion: the thread, then its first message,
\* each in its own commit; a failure of the second leaves the thread.
start_new_discussion(q, u, title, content) ==
  LET th == create_discussion_thread(q, u, title)
  IN IF ~th.ok THEN th
     ELSE create_discussion_message(th.ths, ids.thread, u, content)

DApply(op, out, sent) ==
  /\ threads' = out.ths
  /\ dmessages' = out.msgs
  /\ ids' = [ids EXCEPT !.thread = IF ids.thread \in DOMAIN out.ths THEN @ + 1 ELSE @,
                        !.dmessage = IF ids.dmessage \in DOMAIN out.msgs THEN @ + 1 ELSE @]
  /\ resp' = Response(op, out.status, out.absent, sent)

\* POST /discuss/start
StartDiscussion(q, u, title, content) ==
  /\ ids.thread <= MaxThreads
  /\ ids.dmessage <= MaxMessages
  /\ DApply("POST /discuss/start", start_new_discussion(q, u, title, content),
            [k |-> "start", question_id |-> q, content |-> content])
  /\ UNCHANGED <<qVars, sVars, cVars, nVars, hVars, clock>>

\* POST /discuss/message
CreateMessage(t, u, content) ==
  /\ ids.dmessage <= MaxMessages
  /\ DApply("POST /discuss/message", create_message(t, u, content),
            [k |-> "message", thread_id |-> t, content |-> content])
  /\ UNCHANGED <<qVars, sVars, cVars, nVars, hVars, clock>>

\* DiscussionRepository.create_discussion_message called on its own.
CreateDiscussionMessage(t, u, content) ==
  /\ ids.dmessage <= MaxMessages
  /\ DApply("create_discussion_message", create_discussion_message(threads, t, u, content),
            [k |-> "message", thread_id |-> t, content |-> content])
  /\ UNCHANGED <<qVars, sVars, cVars, nVars, hVars, clock>>

\* ORDER BY created_at of the messages of thread t (ids in that order).
RECURSIVE OldestFirstD(_)
OldestFirstD(ms) ==
  IF ms = {} THEN <<>>
  ELSE LET m == CHOOSE x \in ms :
                  \A y \in ms : <<dmessages[x].created_at, x>> = <<dmessages[y].created_at, y>>
                     \/ dmessages[x].created_at < dmessages[y].created_at
                     \/ (dmessages[x].created_at = dmessages[y].created_at /\ x < y)
       IN <<m>> \o OldestFirstD(ms \ {m})

\* GET /discuss/thread/{id}
GetThreadMessages(t) ==
  /\ resp' = Response("GET /discuss/thread/{id}", 200, t \notin DOMAIN threads,
                      [k |-> "messages",
                       ids |-> OldestFirstD({m \in DOMAIN dmessages :
                                               dmessages[m].thread_id = t})])
  /\ UNCHANGED <<qVars, sVars, dVars, cVars, nVars, hVars, ids, clock>>

\* ===================================================================== chat

\* Requests the server handles at the same time.
ChatWorkers == {"a", "b"}
IdleChat == [pc |-> "idle"]

\* What ChatGoogleGenerativeAI.invoke gives: a text, an empty text, an exception.
LlmOutcomes == {"text", "empty", "raise"}

Waiting(sid) == {w \in ChatWorkers : inflight[w].pc = "llm" /\ inflight[w].session_id = sid}

\* Message rows still to be written by the requests in flight.
Reserved == Cardinality({w \in ChatWorkers : inflight[w].pc = "llm"})

\* update_session_activity letting a missing session pass.
update_session_activity_lenient(ss, sid) ==
  [ok |-> TRUE,
   sessions |-> IF sid \in DOMAIN ss THEN [ss EXCEPT ![sid].last_active = clock] ELSE ss]

\* ChatRepository.update_session_activity
update_session_activity(ss, sid) ==
  IF sid \in DOMAIN ss
  THEN [ok |-> TRUE, sessions |-> [ss EXCEPT ![sid].last_active = clock]]
  ELSE [ok |-> FALSE, sessions |-> ss]

ChatMessageRow(sid, u, role, message) ==
  [session_id |-> sid, user_id |-> u, role |-> role, message |-> message,
   created_at |-> clock]

\* ChatRepository.get_chat_history, newest first instead of oldest first.
get_chat_history_desc(sid) ==
  LET ms == {m \in DOMAIN cmessages : cmessages[m].session_id = sid}
      RECURSIVE Sorted(_)
      Sorted(rest) ==
        IF rest = {} THEN <<>>
        ELSE LET m == CHOOSE x \in rest : \A y \in rest :
                        \/ cmessages[x].created_at > cmessages[y].created_at
                        \/ (cmessages[x].created_at = cmessages[y].created_at /\ x >= y)
             IN <<cmessages[m]>> \o Sorted(rest \ {m})
  IN Sorted(ms)

\* ChatRepository.get_chat_history: the session's rows ORDER BY created_at.
get_chat_history(sid) ==
  LET ms == {m \in DOMAIN cmessages : cmessages[m].session_id = sid}
      RECURSIVE Sorted(_)
      Sorted(rest) ==
        IF rest = {} THEN <<>>
        ELSE LET m == CHOOSE x \in rest : \A y \in rest :
                        \/ cmessages[x].created_at < cmessages[y].created_at
                        \/ (cmessages[x].created_at = cmessages[y].created_at /\ x <= y)
             IN <<cmessages[m]>> \o Sorted(rest \ {m})
  IN Sorted(ms)

\* The calls made on a session: how its start ended, the send-message calls
\* with role "user" answered 200, and every other call that reached it.
NoCalls == [start |-> "pending", sends |-> 0, other |-> 0]

\* ChatRepository.chat_with_ai up to the call of the language model (lines
\* 103-134): the session's activity, then the caller's message, each committed.
\* A missing session is a 404 that the method's own handler turns into 500.
ChatBegin(w, op, ss, sid, u, role, message, log) ==
  LET act == update_session_activity(ss, sid)
  IN IF ~act.ok
     THEN /\ resp' = Response(op, 500, TRUE, [k |-> "detail", session_id |-> sid])
          /\ sessions' = ss
          /\ UNCHANGED <<cmessages, inflight, clock, hist>>
          /\ ids' = [ids EXCEPT !.session = IF ids.session \in DOMAIN ss THEN @ + 1 ELSE @]
     ELSE /\ sessions' = act.sessions
          /\ cmessages' = With(cmessages, ids.cmessage, ChatMessageRow(sid, u, role, message))
          /\ ids' = [ids EXCEPT !.cmessage = @ + 1,
                                !.session = IF ids.session \in DOMAIN ss THEN @ + 1 ELSE @]
          /\ clock' = clock + 1
          /\ inflight' = [inflight EXCEPT ![w] =
                            [pc |-> "llm", op |-> op, session_id |-> sid, user_id |-> u,
                             role |-> role, user_msg |-> ids.cmessage]]
          /\ hist' = [hist EXCEPT !.chat = log]
          /\ UNCHANGED resp

\* What AIUtility.generate_title gives: a title, one longer than the
\* column's 255 characters, an exception.
TitleOutcomes == {"title", "long", "raise"}

\* POST /chat/start up to the call of the language model: ChatDomain.start_new_chat
\* lines 71-84 (the title, the session row, then chat_with_ai).
StartChatArrive(w, u, message, title) ==
  /\ inflight[w].pc = "idle"
  /\ ids.session <= MaxSessions
  /\ ids.cmessage + Reserved + 1 <= MaxChatMessages
  /\ IF title # "title"
     THEN /\ resp' = Response("POST /chat/start", 500, FALSE, [k |-> "detail", title |-> title])
          /\ UNCHANGED <<cVars, hVars, ids, clock>>
     ELSE ChatBegin(w, "POST /chat/start",
                    With(sessions, ids.session,
                         [user_id |-> u, session_title |-> title, last_active |-> clock]),
                    ids.session, u, "user", message,
                    With(hist.chat, ids.session, NoCalls))
  /\ UNCHANGED <<qVars, sVars, dVars, nVars>>

\* POST /chat/message up to the call of the language model:
\* ChatDomain.process_user_message, then chat_with_ai.  A blank message is a
\* ValueError (500 from the global handler).
SendMessageArrive(w, sid, u, role, message) ==
  /\ inflight[w].pc = "idle"
  /\ ids.cmessage + Reserved + 1 <= MaxChatMessages
  /\ IF Blank(message)
     THEN /\ resp' = Response("POST /chat/message", 500, sid \notin DOMAIN sessions,
                              [k |-> "detail", session_id |-> sid])
          /\ UNCHANGED <<cVars, hVars, ids, clock>>
     ELSE ChatBegin(w, "POST /chat/message", sessions, sid, u, role, message,
                    IF sid \in DOMAIN hist.chat /\ Waiting(sid) # {}
                    THEN [hist.chat EXCEPT ![sid].other = @ + 1]
                    ELSE hist.chat)
  /\ UNCHANGED <<qVars, sVars, dVars, nVars>>

\* The language model answers a waiting request: chat_with_ai lines 137-157,
\* then the construction of the response.  An empty text is stored, and then
\* refused by the response model (message has min_length 1).
ChatFinish(w, llm) ==
  /\ inflight[w].pc = "llm"
  /\ LET r == inflight[w]
         sid == r.session_id
         status == IF llm = "text" THEN 200 ELSE 500
     IN /\ IF llm = "raise"
           THEN UNCHANGED <<cmessages, ids, clock>>
           ELSE /\ cmessages' = With(cmessages, ids.cmessage,
                                     ChatMessageRow(sid, r.user_id, "ai", llm))
                /\ ids' = [ids EXCEPT !.cmessage = @ + 1]
                /\ clock' = clock + 1
        /\ hist' = [hist EXCEPT !.chat[sid] =
                      IF r.op = "POST /chat/start"
                      THEN [@ EXCEPT !.start = IF status = 200 THEN "ok" ELSE "failed"]
                      ELSE IF status = 200 /\ r.role = "user"
                      THEN [@ EXCEPT !.sends = @ + 1]
                      ELSE [@ EXCEPT !.other = @ + 1]]
        /\ resp' = Response(r.op, status, FALSE, [k |-> "reply", session_id |-> sid])
  /\ inflight' = [inflight EXCEPT ![w] = IdleChat]
  /\ UNCHANGED <<sessions, qVars, sVars, dVars, nVars>>

\* GET /chat/history/{session_id}
GetChatHistory(sid) ==
  /\ resp' = Response("GET /chat/history/{session_id}", 200, sid \notin DOMAIN sessions,
                      [k |-> "history", session_id |-> sid,
                       messages |-> get_chat_history(sid)])
  /\ UNCHANGED <<qVars, sVars, dVars, cVars, nVars, hVars, ids, clock>>

\* ===================================================================== news

\* cache_duration, one hour, the clock counting half hours.
CacheDuration == 2
TicksPerDay == 24 * CacheDuration

\* rss_feeds, in the order of the dict.
RssFeeds == <<"venturebeat", "techcrunch", "wired", "mit_tech_review", "ai_news">>

Entry(title, published_at, ai, dated) ==
  [title |-> title, published_at |-> published_at, ai |-> ai, dated |-> dated]

Feed(up, entries) == [up |-> up, entries |-> entries]
FeedDown == Feed(FALSE, <<>>)

\* What the five feeds may be serving.
AllFeedsDown == [src \in 1..Len(RssFeeds) |-> FeedDown]

FeedStates ==
  { AllFeedsDown,
    [src \in 1..Len(RssFeeds) |->
       IF src = 1 THEN Feed(TRUE, <<Entry("v1", -60, TRUE, TRUE), Entry("v2", -1, TRUE, TRUE)>>)
       ELSE IF src = 2 THEN Feed(TRUE, <<Entry("t1", 1, TRUE, TRUE), Entry("t2", -1, FALSE, TRUE)>>)
       ELSE Feed(TRUE, <<>>)],
    [src \in 1..Len(RssFeeds) |->
       IF src = 1 THEN Feed(TRUE, <<Entry("v2", -1, TRUE, TRUE)>>)
       ELSE IF src = 3 THEN Feed(TRUE, <<Entry("w1", -1, TRUE, TRUE), Entry("w2", 0, TRUE, FALSE)>>)
       ELSE IF src = 4 THEN Feed(FALSE, <<Entry("m1", 0, TRUE, TRUE)>>)
       ELSE IF src = 5 THEN Feed(TRUE, <<Entry("a1", 0, TRUE, TRUE)>>)
       ELSE FeedDown] }

NewsArticle(source, e) ==
  [title |-> e.title, source |-> source, published_at |-> e.published_at]

\* Lines 54-82: the entries of one feed that are dated, not older than the
\* cutoff and about AI, in the feed's order.
RECURSIVE ArticlesOf(_, _, _)
ArticlesOf(source, entries, cutoff_date) ==
  IF entries = <<>> THEN <<>>
  ELSE LET e == Head(entries)
           rest == ArticlesOf(source, Tail(entries), cutoff_date)
       IN IF e.dated /\ ~(e.published_at < cutoff_date) /\ e.ai
          THEN <<NewsArticle(source, e)>> \o rest
          ELSE rest

\* Collect reading the body of every answer, whatever its status.
RECURSIVE CollectAnyStatus(_, _, _)
CollectAnyStatus(fs, src, cutoff_date) ==
  IF src > Len(RssFeeds) THEN <<>>
  ELSE ArticlesOf(RssFeeds[src], fs[src].entries, cutoff_date)
       \o CollectAnyStatus(fs, src + 1, cutoff_date)

\* Lines 48-85: every feed in turn; one that cannot be read is skipped.
RECURSIVE Collect(_, _, _)
Collect(fs, src, cutoff_date) ==
  IF src > Len(RssFeeds) THEN <<>>
  ELSE (IF fs[src].up THEN ArticlesOf(RssFeeds[src], fs[src].entries, cutoff_date) ELSE <<>>)
       \o Collect(fs, src + 1, cutoff_date)

\* articles.sort(key=published_at, reverse=True): a stable sort, so articles
\* of the same date keep the order in which they were collected.
RECURSIVE SortNewestFirst(_)
SortNewestFirst(articles) ==
  IF articles = <<>> THEN <<>>
  ELSE LET n == Len(articles)
           x == articles[n]
           done == SortNewestFirst(SubSeq(articles, 1, n - 1))
           keep == Cardinality({i \in 1..Len(done) : done[i].published_at >= x.published_at})
       IN SubSeq(done, 1, keep) \o <<x>> \o SubSeq(done, keep + 1, Len(done))

\* articles[:limit]
Slice(articles, limit) ==
  IF limit >= 0
  THEN SubSeq(articles, 1, IF limit < Len(articles) THEN limit ELSE Len(articles))
  ELSE SubSeq(articles, 1, IF Len(articles) + limit > 0 THEN Len(articles) + limit ELSE 0)

NewsResponse(articles) ==
  [articles |-> articles, total_count |-> Len(articles), last_updated |-> clock]

\* StoreNews writing the response only, the fetch time of a filled slot
\* staying as it was.
StoreNewsTorn(articles, limit) ==
  LET news_response == NewsResponse(Slice(SortNewestFirst(articles), limit))
  IN [fresh |-> TRUE, response |-> news_response,
      cache |-> [cached_news |-> Some(news_response),
                 last_fetch |-> IF cache.last_fetch.some THEN cache.last_fetch
                                ELSE Some(clock)]]

\* Lines 87-102: sort, truncate, build the response and fill the cache slot.
StoreNews(articles, limit) ==
  LET news_response == NewsResponse(Slice(SortNewestFirst(articles), limit))
  IN [fresh |-> TRUE, response |-> news_response,
      cache |-> [cached_news |-> Some(news_response), last_fetch |-> Some(clock)]]

\* Lines 43-102: the fetch, which fills the cache slot.
FetchNews(days, limit) ==
  StoreNews(Collect(feeds, 1, clock - days * TicksPerDay), limit)

\* get_ai_news without the cache check of lines 39-41.
get_ai_news_uncached(days, limit, force_refresh) == FetchNews(days, limit)

\* NewsRepository.get_ai_news
get_ai_news(days, limit, force_refresh) ==
  IF ~force_refresh /\ cache.cached_news.some /\ cache.last_fetch.some
     /\ clock - cache.last_fetch.v < CacheDuration
  THEN [fresh |-> FALSE, response |-> cache.cached_news.v, cache |-> cache]
  ELSE FetchNews(days, limit)

\* GET /news/
GetAiNews(days, limit, force_refresh) ==
  /\ hist.news_calls < MaxNewsCalls
  /\ LET out == get_ai_news(days, limit, force_refresh)
     IN /\ cache' = out.cache
        /\ resp' = Response("GET /news/", 200, FALSE,
                            [k |-> "news", response |-> out.response, at |-> clock,
                             args |-> [days |-> days, limit |-> limit,
                                       force_refresh |-> force_refresh]])
        /\ hist' = [hist EXCEPT !.news_calls = @ + 1,
                                !.fetches = IF out.fresh THEN @ + 1 ELSE @]
  /\ UNCHANGED <<qVars, sVars, dVars, cVars, feeds, fetching, ids, clock>>

\* The refreshes that may be waiting for a feed at the same time.
NewsWorkers == {1, 2}
IdleFetch == [pc |-> "idle"]

\* Lines 38-46 of a call that misses the cache: it fixes the cutoff date and
\* opens the client, and waits for the first feed.
RefreshBegin(w, days, limit, force_refresh) ==
  /\ fetching[w].pc = "idle"
  /\ hist.news_calls < MaxRefreshes
  /\ get_ai_news(days, limit, force_refresh).fresh
  /\ fetching' = [fetching EXCEPT ![w] =
                    [pc |-> "feeds", days |-> days, limit |-> limit,
                     force_refresh |-> force_refresh,
                     cutoff_date |-> clock - days * TicksPerDay,
                     src |-> 1, articles |-> <<>>, overlapped |-> FALSE]]
  /\ hist' = [hist EXCEPT !.news_calls = @ + 1]
  /\ UNCHANGED <<qVars, sVars, dVars, cVars, cache, feeds, ids, clock, resp>>

\* Lines 48-85, one turn of the loop: the awaited feed answers (or fails) and
\* its matching entries are appended.
RefreshFeed(w) ==
  /\ fetching[w].pc = "feeds"
  /\ fetching[w].src <= Len(RssFeeds)
  /\ LET r == fetching[w]
         got == IF feeds[r.src].up
                THEN ArticlesOf(RssFeeds[r.src], feeds[r.src].entries, r.cutoff_date)
                ELSE <<>>
     IN fetching' = [fetching EXCEPT ![w] =
                       [r EXCEPT !.src = @ + 1, !.articles = @ \o got]]
  /\ UNCHANGED <<qVars, sVars, dVars, cVars, cache, feeds, hVars, ids, clock, resp>>

\* Lines 87-102 after the client is closed: the response is built, stored in
\* the cache slot and returned.  A refresh still waiting is marked as having
\* been overtaken.
RefreshEnd(w) ==
  /\ fetching[w].pc = "feeds"
  /\ fetching[w].src > Len(RssFeeds)
  /\ LET r == fetching[w]
         out == StoreNews(r.articles, r.limit)
     IN /\ cache' = out.cache
        /\ resp' = Response("GET /news/", 200, FALSE,
                            [k |-> "news", response |-> out.response, at |-> clock,
                             args |-> [days |-> r.days, limit |-> r.limit,
                                       force_refresh |-> r.force_refresh],
                             overlapped |-> r.overlapped])
  /\ fetching' = [v \in NewsWorkers |->
                    IF v = w THEN IdleFetch
                    ELSE IF fetching[v].pc = "feeds"
                         THEN [fetching[v] EXCEPT !.overlapped = TRUE]
                         ELSE fetching[v]]
  /\ hist' = [hist EXCEPT !.fetches = @ + 1]
  /\ UNCHANGED <<qVars, sVars, dVars, cVars, feeds, ids, clock>>

\* Half an hour passes, the clock not running beyond max.
TickTo(max) ==
  /\ clock < max
  /\ clock' = clock + 1
  /\ UNCHANGED <<qVars, sVars, dVars, cVars, nVars, hVars, ids, resp>>

Tick == TickTo(MaxClock)

\* The publishers change what their feeds serve.
FeedsChange(fs) ==
  /\ fs # feeds
  /\ feeds' = fs
  /\ UNCHANGED <<qVars, sVars, dVars, cVars, cache, fetching, hVars, ids, resp, clock>>

\* ============================================================ specifications

Init ==
  /\ questions = <<>>
  /\ hints = <<>>
  /\ submissions = <<>>
  /\ reviews = <<>>
  /\ threads = <<>>
  /\ dmessages = <<>>
  /\ sessions = <<>>
  /\ cmessages = <<>>
  /\ inflight = [w \in ChatWorkers |-> IdleChat]
  /\ ids = [question |-> 1, submission |-> 1, review |-> 1, thread |-> 1,
            dmessage |-> 1, session |-> 1, cmessage |-> 1, hint |-> 1]
  /\ clock = 0
  /\ cache = [cached_news |-> None, last_fetch |-> None]
  /\ feeds = AllFeedsDown
  /\ fetching = [w \in NewsWorkers |-> IdleFetch]
  /\ req = IdleReq
  /\ resp = NoResp
  /\ hist = [news_calls |-> 0, fetches |-> 0, chat |-> <<>>]

QuestionIds == 1..(MaxQuestions + 1)
SubmissionIds == 1..MaxSubmissions

OneTestCase == <<[input |-> "i1", exp_output |-> 0]>>
OneConstraint == <<[id |-> 1, question_id |-> 1, description |-> "c1"]>>

\* Request bodies of PUT /questions/{id} and PUT /submissions/{id}.
NoQuestionUpdate ==
  [title |-> None, description |-> None, difficulty_level |-> None,
   examples |-> None, constraints |-> None, test_cases |-> None]
NoConstraints == [NoQuestionUpdate EXCEPT !.constraints = Some(<<>>)]
QuestionUpdates ==
  { NoQuestionUpdate, NoConstraints,
    [NoQuestionUpdate EXCEPT !.title = Some("t2")],
    [NoQuestionUpdate EXCEPT !.constraints = Some(<<>>), !.title = Some("t2")],
    [NoConstraints EXCEPT !.examples = Some(<<[id |-> 1, input |-> "i2", output |-> 1]>>)],
    [NoConstraints EXCEPT !.test_cases = Some(<<>>)],
    [NoQuestionUpdate EXCEPT !.constraints =
        Some(<<[id |-> 1, question_id |-> 1, description |-> "c2"]>>)] }

NoSubmissionUpdate ==
  [result |-> None, test_cases_passed |-> None, total_test_cases |-> None,
   compliance_check |-> None]
MorePassedThanTotal ==
  [NoSubmissionUpdate EXCEPT !.test_cases_passed = Some(2), !.total_test_cases = Some(1)]
SubmissionUpdates ==
  { NoSubmissionUpdate, MorePassedThanTotal,
    [NoSubmissionUpdate EXCEPT !.result = Some("Accepted")] }

\* Collaborator behaviours a submit-and-review request is run against.
PipelineCollab ==
  { [kind |-> "raise"],
    [kind |-> "text", text |-> [toks |-> <<"w">>, obj |-> EmptyObject]],
    [kind |-> "text", text |-> [toks |-> <<"w", "lb", "m", "rb", "w">>,
        obj |-> [has_summary |-> TRUE, total |-> 5, passed |-> 4, ntests |-> 5]]] }

AddQuestion == DomainCreateQuestion("t1", "d1", "Easy", <<>>, <<>>, OneTestCase)

\* The submission endpoints, the review pipeline and the question endpoints
\* they depend on.
Next ==
  \/ AddQuestion
  \/ \E q \in QuestionIds : RouterGetQuestion(q)
  \/ \E q \in QuestionIds, b \in {NoQuestionUpdate, NoConstraints} : RouterUpdateQuestion(q, b)
  \/ \E q \in QuestionIds : RouterDeleteQuestion(q)
  \/ \E u \in UserIds, q \in QuestionIds : CreateSubmission(u, q)
  \/ \E s \in SubmissionIds : GetSubmission(s)
  \/ \E s \in SubmissionIds : GetSubmissionWithReviews(s)
  \/ \E s \in SubmissionIds, c \in PipelineCollab : CompileSubmission(s, c)
  \/ \E s \in SubmissionIds, c \in PipelineCollab : GetRecommendations(s, c)
  \/ \E s \in SubmissionIds : UpdateSubmission(s, MorePassedThanTotal)
  \/ \E s \in SubmissionIds : GetCodeRecommendations(s, "dicts", [kind |-> "raise"])
  \/ \E q \in QuestionIds, c \in PipelineCollab : SubmitArrive(1, q, c)
  \/ SubmitStep

Spec == Init /\ [][Next]_vars

\* A finished submit-and-review request whose submission was created.
Finished == req.pc = "done" /\ Len(req.steps) > 0 /\ req.steps[1].ok

\* C2: when the collaborator's text cannot be parsed in either way,
\* submit-and-review still answers 200, the submission ends with result
\* "Error" and 0 of 0 test cases, and the response carries a review.
C2_UnparseableStillSucceeds ==
  (Finished /\ req.collab.kind = "text" /\ Unparseable(req.collab.text)) =>
    /\ req.status = 200
    /\ req.sid \in DOMAIN submissions
    /\ submissions[req.sid].result = "Error"
    /\ submissions[req.sid].total_test_cases = 0
    /\ submissions[req.sid].test_cases_passed = 0
    /\ req.review.some

\* The steps that have run are a prefix of the fixed order, each of them but
\* the last returned, and the step about to run is the next of the order.
InFixedOrder ==
  /\ Len(req.steps) <= Len(PipelineOrder)
  /\ \A i \in 1..Len(req.steps) : req.steps[i].name = PipelineOrder[i]
  /\ \A i \in 1..(Len(req.steps) - 1) : req.steps[i].ok
  /\ req.pc \in {"create", "compile", "recommend", "fetch"} =>
        /\ req.pc = PipelineOrder[Len(req.steps) + 1]
        /\ \A i \in 1..Len(req.steps) : req.steps[i].ok
  /\ (req.pc = "done" /\ req.status = 200) => Len(req.steps) = Len(PipelineOrder)

\* The counts and result the recommendation step puts in its prompt are the
\* ones stored on the submission.
RecommendReadsStored ==
  (resp.op = "get_code_recommendations" /\ resp.body.k = "recommend"
     /\ resp.body.called /\ resp.body.sid \in DOMAIN submissions) =>
    LET row == submissions[resp.body.sid]
    IN resp.body.prompt = [test_cases_passed |-> row.test_cases_passed,
                           total_test_cases |-> row.total_test_cases,
                           result |-> row.result]

C5_CollaboratorFailureAbsorbed ==
  (Finished /\ (req.collab.kind = "raise" \/ Unparseable(req.collab.text))) =>
    req.status = 200

\* The operations of the questions and submissions that name an entity.
NamingOperations ==
  {"GET /questions/{id}", "PUT /questions/{id}", "DELETE /questions/{id}",
   "GET /submissions/{id}", "PUT /submissions/{id}", "POST /submissions/compile/{id}",
   "POST /submissions/recommend/{id}", "POST /submissions/submit-and-review"}

\* C6: an operation that names a question or submission that does not
\* exist is answered 404.
C6_AbsentIs404 ==
  (resp.op \in NamingOperations /\ resp.absent) => resp.status = 404

\* The repository's compile and recommend steps against every collaborator
\* text, on submissions whose counts may have been edited.
NextRepo ==
  \/ AddQuestion
  \/ \E q \in QuestionIds : CreateSubmission(1, q)
  \/ \E s \in SubmissionIds, b \in SubmissionUpdates : UpdateSubmission(s, b)
  \/ \E s \in SubmissionIds, c \in Collab : CompileCode(s, "dicts", c)
  \/ \E s \in SubmissionIds, d \in QuestionDatas, c \in ShapeCollab : CompileCode(s, d, c)
  \/ \E s \in SubmissionIds, d \in QuestionDatas, c \in ShapeCollab :
        GetCodeRecommendations(s, d, c)

SpecRepo == Init /\ [][NextRepo]_vars

\* A compile step that got as far as the collaborator's summary.
Compiled == resp.op = "compile_code" /\ resp.body.k = "compile" /\ resp.body.called

\* C1: after a compile step on a submission, the stored test_cases_passed
\* is at most the stored total_test_cases.
C1_PassedAtMostTotal ==
  (Compiled /\ resp.body.sid \in DOMAIN submissions) =>
    submissions[resp.body.sid].test_cases_passed <= submissions[resp.body.sid].total_test_cases

\* The result the pass ratio p/t stands for.
ResultOfRatio(p, t) ==
  IF t = 0 THEN "Error"
  ELSE IF p = t THEN "Accepted"
  ELSE IF 5 * p >= 4 * t THEN "Partially Accepted"
  ELSE "Failed"

\* C3: after a compile step in which the collaborator reported t tests and
\* p passed, the submission's result is the one the ratio p/t stands for.
C3_ResultFromRatio ==
  (Compiled /\ "assigned" \in DOMAIN resp.body /\ resp.body.sid \in DOMAIN submissions) =>
    submissions[resp.body.sid].result =
      ResultOfRatio(resp.body.assigned.test_cases_passed, resp.body.assigned.total_test_cases)

ThreadIds == 1..(MaxThreads + 1)
Contents == {"hi", " "}

\* Discussion threads and messages of the questions.
NextDiscuss ==
  \/ AddQuestion
  \/ \E q \in QuestionIds : RouterDeleteQuestion(q)
  \/ \E q \in QuestionIds, u \in UserIds, c \in Contents : StartDiscussion(q, u, "t", c)
  \/ \E t \in ThreadIds, u \in UserIds, c \in Contents : CreateMessage(t, u, c)
  \/ \E t \in ThreadIds, u \in UserIds, c \in Contents : CreateDiscussionMessage(t, u, c)
  \/ \E t \in ThreadIds : GetThreadMessages(t)

SpecDiscuss == Init /\ [][NextDiscuss]_vars

\* C7: a discussion message for a thread that does not exist (through
\* create_discussion_message, or through POST /discuss/message with a content
\* that is not blank) is answered 404, and the step leaves every message row
\* and every thread row as it was.
C7_UnknownThreadNoInsert ==
  [][ ( /\ resp'.op \in {"create_discussion_message", "POST /discuss/message"}
        /\ resp'.body.thread_id \notin DOMAIN threads
        /\ (resp'.op = "POST /discuss/message" => ~Blank(resp'.body.content)) )
      => (resp'.status = 404 /\ dmessages' = dmessages /\ threads' = threads) ]_vars

\* C7 witness: the 404 was given while other messages and threads exist.
C7_Witness ==
  /\ resp.op = "create_discussion_message"
  /\ resp.status = 404
  /\ resp.body.thread_id \notin DOMAIN threads
  /\ threads # <<>>
  /\ dmessages # <<>>

SessionIds == 1..(MaxSessions + 1)
Roles == {"user", "ai"}

\* Chat sessions.
NextChat ==
  \/ \E w \in ChatWorkers, t \in TitleOutcomes : StartChatArrive(w, 1, "hi", t)
  \/ \E w \in ChatWorkers, sid \in SessionIds, r \in Roles, m \in Contents :
       SendMessageArrive(w, sid, 1, r, m)
  \/ \E w \in ChatWorkers, llm \in LlmOutcomes : ChatFinish(w, llm)
  \/ \E sid \in SessionIds : GetChatHistory(sid)

SpecChat == Init /\ [][NextChat]_vars

\* A session on which the start was answered 200 and every later call was a
\* send-message with role "user" answered 200, one after the other.
OnlySuccessfulUserSends(sid) ==
  /\ sid \in DOMAIN hist.chat
  /\ hist.chat[sid].start = "ok"
  /\ hist.chat[sid].other = 0
  /\ Waiting(sid) = {}

Alternating(h) ==
  /\ \A i \in 1..Len(h) : h[i].role = (IF i % 2 = 1 THEN "user" ELSE "ai")
  /\ \A i \in 1..(Len(h) - 1) : h[i].created_at < h[i + 1].created_at

\* C8: after start_new_chat and k successful send-message calls with role
\* "user", get_chat_history gives exactly 2(k+1) messages, oldest first, with
\* roles user, ai, user, ai, ...
C8_HistoryAlternates ==
  \A sid \in DOMAIN sessions :
    OnlySuccessfulUserSends(sid) =>
      /\ Len(get_chat_history(sid)) = 2 * (hist.chat[sid].sends + 1)
      /\ Alternating(get_chat_history(sid))

\* C8 witness: the history of a session with one successful follow-up was
\* read: four messages.
C8_Witness ==
  /\ resp.op = "GET /chat/history/{session_id}"
  /\ resp.body.session_id \in DOMAIN sessions
  /\ OnlySuccessfulUserSends(resp.body.session_id)
  /\ hist.chat[resp.body.session_id].sends = 1
  /\ resp.body.messages = get_chat_history(resp.body.session_id)
  /\ Len(resp.body.messages) = 4

NewsDays == {0, 1}
NewsLimits == {-1, 1, 10}

\* The news endpoint, time passing and the feeds changing.
NextNews ==
  \/ \E d \in NewsDays, l \in NewsLimits, f \in BOOLEAN : GetAiNews(d, l, f)
  \/ Tick
  \/ \E fs \in FeedStates : FeedsChange(fs)

SpecNews == Init /\ [][NextNews]_vars

\* C9: a call of get_ai_news fetches the feeds exactly when force_refresh is
\* set, nothing is cached yet, or an hour or more has passed since the last
\* fetch; any other call answers with the cached response as it is and
\* leaves the cache slot alone, whatever days and limit it was given.
C9_CacheFreshness ==
  [][ hist'.news_calls = hist.news_calls + 1 =>
        LET fetched == hist'.fetches = hist.fetches + 1
            due == \/ resp'.body.args.force_refresh
                   \/ ~cache.cached_news.some
                   \/ clock - cache.last_fetch.v >= CacheDuration
        IN /\ fetched <=> due
           /\ fetched => cache'.last_fetch = Some(clock) /\ cache'.cached_news = Some(resp'.body.response)
           /\ ~fetched => cache' = cache /\ resp'.body.response = cache.cached_news.v ]_vars

\* C9 witness: a call inside the window, asking for fewer articles than are
\* cached, was answered from the cache.
C9_Witness ==
  /\ resp.op = "GET /news/"
  /\ ~resp.body.args.force_refresh
  /\ resp.body.response.last_updated < resp.body.at
  /\ resp.body.args.limit >= 0
  /\ resp.body.args.limit < resp.body.response.total_count
  /\ cache.cached_news = Some(resp.body.response)

OneExample == <<[id |-> 1, input |-> "i1", output |-> 0]>>
OneBodyTestCase == <<[id |-> 1, input |-> "i1", exp_output |-> 0]>>

\* Valid request bodies of POST /questions/.
QuestionBodies ==
  [title : {"t1", "t2"}, description : {"d1"}, examples : {<<>>, OneExample},
   constraints : {<<>>, OneConstraint}, test_cases : {<<>>, OneBodyTestCase}]

\* Query parameters of GET /questions/ on both sides of each bound.
Skips == {-1, 0, 1}
Limits == {LimitMin - 1, LimitMin, LimitMin + 1, LimitMax, LimitMax + 1}

\* The question endpoints, and questions entered through the domain.
NextQuestion ==
  \/ \E t \in {"t1", "t2"}, d \in {"Easy", "Impossible"}, cs \in {<<>>, <<"c1">>} :
       DomainCreateQuestion(t, "d1", d, <<>>, cs, OneTestCase)
  \/ \E b \in QuestionBodies : RouterCreateQuestion(b)
  \/ \E q \in QuestionIds : RouterGetQuestion(q)
  \/ \E q \in QuestionIds, b \in QuestionUpdates : RouterUpdateQuestion(q, b)
  \/ \E q \in QuestionIds : RouterDeleteQuestion(q)
  \/ \E skip \in Skips, limit \in Limits : RouterGetQuestions(skip, limit)
  \/ \E u \in UserIds, q \in QuestionIds, l \in HintOutcomes : GetHint(u, q, l)

SpecQuestion == Init /\ [][NextQuestion]_vars

\* What GET /questions/{id} shows of question q, set against a request body:
\* the scalar fields, and the children without their ids.
ReadsBackAs(q, body) ==
  LET got == QuestionResponseOf(q, questions[q])
  IN /\ got.title = body.title
     /\ got.description = body.description
     /\ got.examples = [i \in 1..Len(body.examples) |->
                          [input |-> body.examples[i].input, output |-> body.examples[i].output]]
     /\ got.constraints = [i \in 1..Len(body.constraints) |->
                             [description |-> body.constraints[i].description]]
     /\ got.test_cases = [i \in 1..Len(body.test_cases) |->
                            [input |-> body.test_cases[i].input,
                             exp_output |-> body.test_cases[i].exp_output]]

\* C10: once POST /questions/ has answered, the question it was sent exists
\* and GET /questions/{id} reads back the title, description, examples,
\* constraints and test cases that were submitted.
C10_CreateReadRoundTrip ==
  resp.op = "POST /questions/" =>
    /\ resp.status = 201
    /\ \E q \in DOMAIN questions : ReadsBackAs(q, resp.body.sent)

\* C12: GET /questions/ with limit > 1000 or limit < 1 is answered with a
\* client error and no questions; every limit in 1..1000 with skip >= 0 is
\* answered 200 with at most `limit` questions.
C12_LimitValidated ==
  resp.op = "GET /questions/" =>
    /\ (resp.body.args.limit > 1000 \/ resp.body.args.limit < 1) =>
          (resp.status \in 400..499 /\ resp.body.k = "detail")
    /\ (resp.body.args.limit \in 1..1000 /\ resp.body.args.skip >= 0) =>
          /\ resp.status = 200 /\ resp.body.k = "questions"
          /\ resp.body.total <= resp.body.args.limit

\* A question exists and a listing with limit 1001 has been refused.
C12_Witness ==
  /\ resp.op = "GET /questions/" /\ resp.body.args.limit = 1001
  /\ resp.status = 422
  /\ DOMAIN questions # {}

\* C19: an update is a partial-field merge.  For PUT /questions/{id} on an
\* existing question: the request succeeds, every scalar field supplied is
\* overwritten, and every field not supplied (the examples, constraints and
\* test cases among them) keeps its previous value.
C19_PartialMerge ==
  [][ \A q \in DOMAIN questions, b \in QuestionUpdates :
        RouterUpdateQuestion(q, b) =>
          /\ resp'.status = 200
          /\ questions'[q].title = (IF b.title.some THEN b.title.v ELSE questions[q].title)
          /\ questions'[q].description =
                (IF b.description.some THEN b.description.v ELSE questions[q].description)
          /\ questions'[q].difficulty_level =
                (IF b.difficulty_level.some THEN b.difficulty_level.v
                 ELSE questions[q].difficulty_level)
          /\ ~b.examples.some => questions'[q].examples = questions[q].examples
          /\ ~b.constraints.some => questions'[q].constraints = questions[q].constraints
          /\ ~b.test_cases.some => questions'[q].test_cases = questions[q].test_cases
    ]_vars

\* C30: when PUT /questions/{id} supplies a list of examples, of constraints
\* or of test cases, the empty list included, the question afterwards owns
\* exactly the supplied list of that kind, and other questions are untouched.
C30_ChildrenReplaced ==
  [][ \A q \in DOMAIN questions, b \in QuestionUpdates :
        RouterUpdateQuestion(q, b) =>
          /\ b.examples.some =>
               questions'[q].examples =
                 [i \in 1..Len(b.examples.v) |->
                    [input |-> b.examples.v[i].input, output |-> b.examples.v[i].output]]
          /\ b.constraints.some =>
               questions'[q].constraints =
                 [i \in 1..Len(b.constraints.v) |->
                    [description |-> b.constraints.v[i].description]]
          /\ b.test_cases.some =>
               questions'[q].test_cases =
                 [i \in 1..Len(b.test_cases.v) |->
                    [input |-> b.test_cases.v[i].input,
                     exp_output |-> b.test_cases.v[i].exp_output]]
          /\ \A p \in DOMAIN questions \ {q} : questions'[p] = questions[p] ]_vars

\* C26: a hint asked for a question that does not exist is answered 404
\* before anything is written: the hint-request table and its sequence are
\* as before, and the collaborator was not called.
C26_HintForMissingQuestion ==
  [][ \A u \in UserIds, q \in QuestionIds \ DOMAIN questions, l \in HintOutcomes :
        GetHint(u, q, l) =>
          /\ resp'.status = 404
          /\ hints' = hints
          /\ ids' = ids
          /\ ~resp'.body.called ]_vars

\* C26 witness: with a question in the table, a hint was asked for another
\* id and refused.
C26_Witness ==
  /\ resp.op = "get_hint"
  /\ resp.status = 404
  /\ resp.body.question_id \notin DOMAIN questions
  /\ DOMAIN questions # {}
  /\ ~resp.body.called

\* -------------------------------------------------------- SpecRepo, continued

\* C17: a compile step that has derived the counts and the result from the
\* collaborator's answer returns successfully with both persisted: the
\* submission holds the counts and the result, and a review row of the
\* submission holds the test-result payload.
C17_CompilePersistsBoth ==
  (Compiled /\ "assigned" \in DOMAIN resp.body /\ resp.body.sid \in DOMAIN submissions) =>
    /\ resp.status = 200
    /\ submissions[resp.body.sid].total_test_cases = resp.body.assigned.total_test_cases
    /\ submissions[resp.body.sid].test_cases_passed = resp.body.assigned.test_cases_passed
    /\ \E r \in ReviewsOf(resp.body.sid) : reviews[r].kind = "test_results"

\* C18: when the collaborator's recommendation text can be parsed in neither
\* way, get_code_recommendations returns the default payload
\* {error: "Failed to parse recommendations"} without raising, and one review
\* row of the submission holds that payload.
C18_UnparseableRecommendation ==
  ( /\ resp.op = "get_code_recommendations" /\ resp.body.k = "recommend"
    /\ "recommendations" \in DOMAIN resp.body
    /\ resp.body.recommendations = RecommendDefault
    /\ resp.body.sid \in DOMAIN submissions ) =>
    /\ resp.status = 200
    /\ \E r \in ReviewsOf(resp.body.sid) :
          reviews[r].kind = "recommendation" /\ reviews[r].payload = RecommendDefault

\* ----------------------------------------------------------------- SpecRace

\* A compile step in flight while other requests write the same submission.
NextRace ==
  \/ AddQuestion
  \/ \E q \in QuestionIds : CreateSubmission(1, q)
  \/ \E s \in SubmissionIds, b \in SubmissionUpdates : UpdateSubmission(s, b)
  \/ \E s \in SubmissionIds : GetSubmission(s)
  \/ \E s \in SubmissionIds, c \in PipelineCollab : CompileBegin(s, "dicts", c)
  \/ CompileEnd

SpecRace == Init /\ [][NextRace]_vars

\* C22: a compile step that another write of the same submission overlapped
\* is not blocked or rejected: once it has derived its counts and result it
\* completes, and being the last to commit, its values are the ones the
\* submission ends with.
C22_LastWriteWins ==
  [][ ( /\ req.pc = "llm" /\ req'.pc = "idle"
        /\ submissions[req.sid] # req.seen
        /\ "assigned" \in DOMAIN resp'.body )
      => /\ resp'.status = 200
         /\ submissions'[req.sid].total_test_cases = resp'.body.assigned.total_test_cases
         /\ submissions'[req.sid].test_cases_passed = resp'.body.assigned.test_cases_passed
         /\ submissions'[req.sid].result = resp'.body.assigned.result ]_vars

\* The matching articles the feeds that answer hold: dated, not older than
\* the cutoff, about AI.
Matching(cutoff_date) ==
  UNION { { NewsArticle(RssFeeds[src], feeds[src].entries[i]) :
              i \in { j \in 1..Len(feeds[src].entries) :
                        /\ feeds[src].entries[j].dated
                        /\ feeds[src].entries[j].ai
                        /\ feeds[src].entries[j].published_at >= cutoff_date } } :
          src \in {f \in 1..Len(RssFeeds) : feeds[f].up} }

\* C24: a feed that fails is skipped and is not fatal.  Every fetch ends with
\* 200; it returns matching articles of the feeds that answered and nothing
\* else, and all of them when the limit leaves room.
C24_FailedFeedSkipped ==
  [][ hist'.fetches = hist.fetches + 1 =>
        LET args == resp'.body.args
            got == {resp'.body.response.articles[i] :
                      i \in 1..Len(resp'.body.response.articles)}
            expected == Matching(clock - args.days * TicksPerDay)
        IN /\ resp'.status = 200
           /\ got \subseteq expected
           /\ args.limit >= Cardinality(expected) => got = expected ]_vars

\* C24 witness: a fetch made while two feeds were failing, one of them with
\* a matching entry in its body, returned the three articles of the others.
C24_Witness ==
  /\ resp.op = "GET /news/"
  /\ resp.body.at = clock
  /\ cache = [cached_news |-> Some(resp.body.response), last_fetch |-> Some(clock)]
  /\ \E src \in 1..Len(RssFeeds) : ~feeds[src].up /\ feeds[src].entries # <<>>
  /\ Len(resp.body.response.articles) = 3
  /\ {resp.body.response.articles[i].source : i \in 1..3} = {"venturebeat", "wired", "ai_news"}

\* C25: the response of a fresh fetch lists its articles in non-increasing
\* publish-date order, holds at most limit articles, and has total_count
\* equal to the number of articles returned, for every limit the endpoint
\* accepts.
C25_SortedAndTruncated ==
  [][ hist'.fetches = hist.fetches + 1 =>
        LET r == resp'.body.response
        IN /\ \A i \in 1..(Len(r.articles) - 1) :
                r.articles[i].published_at >= r.articles[i + 1].published_at
           /\ Len(r.articles) <= resp'.body.args.limit
           /\ r.total_count = Len(r.articles) ]_vars

\* ------------------------------------------------------------ SpecNewsRace

RaceLimits == {10}
RaceFeedStates == {fs \in FeedStates : ~fs[2].up}

\* News calls whose refreshes overlap, while time passes and the feeds change.
NextNewsRace ==
  \/ \E w \in NewsWorkers, l \in RaceLimits, f \in BOOLEAN : RefreshBegin(w, 1, l, f)
  \/ \E w \in NewsWorkers : RefreshFeed(w)
  \/ \E w \in NewsWorkers : RefreshEnd(w)
  \/ TickTo(MaxRaceClock)
  \/ \E fs \in RaceFeedStates : FeedsChange(fs)

SpecNewsRace == Init /\ [][NextNewsRace]_vars

\* C23: overlapping refreshes all complete (a refresh that is waiting is at
\* one of the feeds or past the last one, where its next step can always be
\* taken, and it ends with 200); the cache slot holds either
\* nothing or a response together with the fetch time of the same refresh;
\* the slot changes only when a refresh ends, and then it holds exactly the
\* response built from the articles that refresh collected, so that after
\* overlapping refreshes it holds the response of the one that wrote last.
C23_SlotHoldsOneRefresh ==
  [][ /\ \A w \in NewsWorkers :
           fetching'[w].pc = "feeds" => fetching'[w].src \in 1..(Len(RssFeeds) + 1)
      /\ cache'.cached_news.some <=> cache'.last_fetch.some
      /\ cache'.cached_news.some =>
           cache'.cached_news.v.last_updated = cache'.last_fetch.v
      /\ \A w \in NewsWorkers :
           (fetching[w].pc = "feeds" /\ fetching'[w].pc = "idle") =>
              /\ resp'.status = 200
              /\ resp'.body.response.articles =
                    Slice(SortNewestFirst(fetching[w].articles), fetching[w].limit)
              /\ resp'.body.response.last_updated = clock
              /\ cache' = [cached_news |-> Some(resp'.body.response),
                           last_fetch |-> Some(clock)]
      /\ cache' # cache =>
           /\ hist'.fetches = hist.fetches + 1
           /\ cache' = [cached_news |-> Some(resp'.body.response),
                        last_fetch |-> Some(clock)] ]_vars

\* C23 witness: a refresh that was overtaken by another one has ended; the
\* slot holds its response, and the refresh that overtook it had stored a
\* different one.
C23_Witness ==
  /\ resp.op = "GET /news/"
  /\ "overlapped" \in DOMAIN resp.body
  /\ resp.body.overlapped
  /\ resp.body.response.articles # <<>>
  /\ cache = [cached_news |-> Some(resp.body.response), last_fetch |-> Some(resp.body.at)]
  /\ hist.fetches = 2

\* ----------------------------------------------------- SpecDiscuss, continued

\* C13: a message whose text is blank (empty or whitespace only) is answered
\* with a client error (4xx), and the step inserts no message row.
C13_BlankIsClientError ==
  [][ (resp'.op = "POST /discuss/message" /\ Blank(resp'.body.content))
      => (resp'.status \in 400..499 /\ dmessages' = dmessages) ]_vars

\* C21: after a discussion message has been inserted, its thread's updated_at
\* holds a time, not earlier than the one it held before.
C21_ParentRefreshed ==
  [][ \A m \in DOMAIN dmessages' \ DOMAIN dmessages :
        LET t == dmessages'[m].thread_id
        IN /\ t \in DOMAIN threads'
           /\ threads'[t].updated_at.some
           /\ (t \in DOMAIN threads /\ threads[t].updated_at.some) =>
                 threads'[t].updated_at.v >= threads[t].updated_at.v ]_vars

\* -------------------------------------------------------- SpecChat, continued

\* C16: a repository write is all-or-nothing.  For chat_with_ai: when the
\* call raises at the invocation of the language model (no reply row is
\* written), the caller's message row it inserted does not remain.
C16_AllOrNothing ==
  [][ \A w \in ChatWorkers :
        ( /\ inflight[w].pc = "llm" /\ inflight'[w].pc = "idle"
          /\ resp'.status = 500 /\ ids'.cmessage = ids.cmessage )
        => inflight[w].user_msg \notin DOMAIN cmessages' ]_vars

\* C27: a chat message sent to a session id that does not exist changes
\* nothing: no message row is inserted and no sequence value is used, no
\* session row is created or modified, and no request goes to the language
\* model.
C27_MissingSessionChangesNothing ==
  [][ \A w \in ChatWorkers, sid \in SessionIds \ DOMAIN sessions,
         r \in Roles, m \in Contents :
        SendMessageArrive(w, sid, 1, r, m) =>
          /\ cmessages' = cmessages
          /\ sessions' = sessions
          /\ inflight' = inflight
          /\ ids' = ids
          /\ resp'.status >= 400 ]_vars

\* C27 witness: while another session exists and holds messages, a message
\* was sent to a session id with no row, and refused.
C27_Witness ==
  /\ resp.op = "POST /chat/message"
  /\ resp.absent
  /\ "session_id" \in DOMAIN resp.body
  /\ resp.body.session_id \notin DOMAIN sessions
  /\ DOMAIN sessions # {}
  /\ DOMAIN cmessages # {}
  /\ \A w \in ChatWorkers : inflight[w].pc = "idle"

\* --------------------------------------------------------------- SpecReview

ReviewIds == 1..MaxReviews

\* Values of the test_results column: what create_review writes, and what a
\* row written by other means can hold.
StoredBlobs ==
  { NoBlob, DumpTestResults(<<TestPassed>>), StrBlob(FALSE, NoValue),
    StrBlob(TRUE, ObjectValue), StrBlob(TRUE, ListValue(<<TestWithoutName>>)),
    NativeBlob(ListValue(<<TestPassed>>)) }

\* The review repository on the submissions of a question.
\* Bodies of create_review: test_results empty (or left out) or not, the
\* compliance_status left out or given.
ReviewTests == {<<>>, <<TestPassed>>, <<TestPassed, TestFailed>>}
ComplianceValues == {None, Some(TRUE), Some(FALSE)}

\* The collaborator answering with a summary object inside prose.
ReviewCollab == {c \in PipelineCollab : c.kind = "text" /\ c.text.obj # EmptyObject}

NextReview ==
  \/ AddQuestion
  \/ \E q \in QuestionIds : CreateSubmission(1, q)
  \/ \E s \in SubmissionIds, ts \in ReviewTests, c \in ComplianceValues :
        CreateReview(s, ts, c)
  \/ \E r \in ReviewIds : GetReview(r)
  \/ \E s \in SubmissionIds : GetReviewsBySubmission(s)
  \/ \E s \in SubmissionIds : GetSubmissionWithReviews(s)
  \/ \E s \in SubmissionIds, b \in StoredBlobs : ConvertToResponse(s, b)
  \/ \E s \in SubmissionIds, c \in ReviewCollab : CompileCode(s, "dicts", c)
  \/ \E s \in SubmissionIds, c \in ReviewCollab : GetCodeRecommendations(s, "dicts", c)
  \/ \E q \in QuestionIds : RouterDeleteQuestion(q)

SpecReview == Init /\ [][NextReview]_vars

\* Whether a stored value deserializes into a list of test results.
Deserializes(b) ==
  /\ b.type = "str" /\ b.parses /\ b.value.type = "list"
  /\ \A i \in 1..Len(b.value.items) : b.value.items[i].valid

\* What a read shows of a stored value: the typed list, or nothing.
ShownTests(b) == IF Deserializes(b) THEN TypedTests(b.value.items) ELSE <<>>

\* C20: a read of a review does not fail because of the stored test_results:
\* a value that deserializes is returned as the typed list, any other value is
\* treated as absent.  For _convert_to_response and the reads built on it
\* (get_review, get_reviews_by_submission), and for the reviews returned by
\* get_submission_with_reviews.
C20_ReadTolerant ==
  /\ (resp.op \in {"_convert_to_response", "get_review", "create_review"}
        /\ resp.body.k \in {"converted", "review"}) =>
       /\ ~resp.body.out.raised
       /\ resp.body.out.test_results = ShownTests(resp.body.stored)
  /\ (resp.op = "get_reviews_by_submission") =>
       /\ resp.status = 200
       /\ \A i \in 1..Len(resp.body.ids) :
             /\ ~resp.body.outs[i].raised
             /\ resp.body.outs[i].test_results =
                  ShownTests(reviews[resp.body.ids[i]].test_results)
  /\ (resp.op = "GET /submissions/{id}/with-reviews" /\ ~resp.absent) =>
       resp.status = 200

\* C28: every review row's submission_id refers to an existing submission.
\* create_review for an unknown submission answers 404 and inserts nothing,
\* compile and recommend add no review for a submission that is missing, and
\* the deletion that removes a submission removes its reviews.
C28_ReviewsHaveSubmission ==
  [][ /\ \A r \in DOMAIN reviews' : reviews'[r].submission_id \in DOMAIN submissions'
      /\ resp'.op = "create_review" =>
           \A s \in SubmissionIds \ DOMAIN submissions, ts \in ReviewTests,
              c \in ComplianceValues :
             CreateReview(s, ts, c) => resp'.status = 404 /\ reviews' = reviews
      /\ (resp'.op \in {"compile_code", "get_code_recommendations"} /\ resp'.absent) =>
           reviews' = reviews
    ]_vars

\* C28 witness: the question of a reviewed submission was deleted, and the
\* submission and its reviews went with it.
C28_Witness ==
  /\ resp.op = "DELETE /questions/{id}"
  /\ resp.status = 204
  /\ ids.review > 1
  /\ reviews = <<>>
  /\ submissions = <<>>

\* C29: after create_review succeeds with a non-empty test_results list, the
\* submission's total_test_cases is the length of the list and
\* test_cases_passed the number of entries that passed (so passed <= total);
\* with an empty or absent list both counts stay as they were; either way
\* compliance_check becomes the compliance_status, or false when that is absent.
C29_ReviewCounts ==
  [][ (resp'.op = "create_review" /\ resp'.status = 201) =>
        \A s \in DOMAIN submissions, ts \in ReviewTests, c \in ComplianceValues :
          CreateReview(s, ts, c) =>
            /\ Len(ts) > 0 =>
                 /\ submissions'[s].total_test_cases = Len(ts)
                 /\ submissions'[s].test_cases_passed =
                       Cardinality({i \in 1..Len(ts) : ts[i].passed})
                 /\ submissions'[s].test_cases_passed <= submissions'[s].total_test_cases
            /\ Len(ts) = 0 =>
                 /\ submissions'[s].total_test_cases = submissions[s].total_test_cases
                 /\ submissions'[s].test_cases_passed = submissions[s].test_cases_passed
            /\ submissions'[s].compliance_check = (IF c.some THEN c.v ELSE FALSE) ]_vars

\* C29 witness: a review with two test results, one of them passed, was
\* followed by a review without test results and without compliance_status:
\* the counts are still 1 of 2.
C29_Witness ==
  /\ resp.op = "create_review"
  /\ resp.status = 201
  /\ resp.body.stored = NoBlob
  /\ ids.review = 3
  /\ \E s \in DOMAIN submissions :
       /\ submissions[s].total_test_cases = 2
       /\ submissions[s].test_cases_passed = 1
       /\ ~submissions[s].compliance_check

\* ------------------------------------------------------------ Spec, continued

\* C11: after a successful DELETE of question q neither q nor any submission
\* that belonged to q remains (the examples, constraints and test cases are
\* part of q's row); ids are never handed out again, so what is gone stays
\* gone, and every read of a missing question or submission answers 404.
C11_DeleteCascades ==
  [][/\ \A q \in QuestionIds :
          (RouterDeleteQuestion(q) /\ resp'.status = 204) =>
             /\ q \notin DOMAIN questions'
             /\ \A s \in DOMAIN submissions :
                   submissions[s].question_id = q =>
                     /\ s \notin DOMAIN submissions'
                     /\ \A r \in DOMAIN reviews :
                           reviews[r].submission_id = s => r \notin DOMAIN reviews'
     /\ \A q \in QuestionIds :
          (q < ids.question /\ q \notin DOMAIN questions) => q \notin DOMAIN questions'
     /\ \A s \in SubmissionIds :
          (s < ids.submission /\ s \notin DOMAIN submissions) => s \notin DOMAIN submissions'
     /\ \A q \in QuestionIds :
          (RouterGetQuestion(q) /\ q \notin DOMAIN questions) =>
             (resp'.status = 404 /\ resp'.absent)
     /\ \A s \in SubmissionIds :
          (GetSubmission(s) /\ s \notin DOMAIN submissions) =>
             (resp'.status = 404 /\ resp'.absent)
    ]_vars

\* A submission was stored, its question was deleted, and the read of the
\* submission that followed found nothing.
C11_Witness ==
  /\ resp.op = "GET /submissions/{id}" /\ resp.status = 404
  /\ ids.submission > 1 /\ ids.question > 1
  /\ DOMAIN questions = {} /\ DOMAIN submissions = {}

\* C14: every submit-and-review request whose create step returns has
\* inserted a new submission row under an id no row had, whatever rows of the
\* same user and question exist already (two identical requests leave two
\* submissions); the existing rows stay, and every review row a step of the
\* request adds belongs to the request's own submission.
C14_NotIdempotent ==
  [][ /\ (req.pc = "create" /\ req'.pc = "compile") =>
           /\ req'.sid \notin DOMAIN submissions
           /\ req'.sid \in DOMAIN submissions'
           /\ submissions'[req'.sid] = NewSubmission(req.user_id, req.question_id)
           /\ \A s \in DOMAIN submissions :
                 s \in DOMAIN submissions' /\ submissions'[s] = submissions[s]
      /\ (req.pc \in {"create", "compile", "recommend", "fetch"} /\ req' # req) =>
           /\ \A r \in DOMAIN reviews' \ DOMAIN reviews :
                 reviews'[r].submission_id = req'.sid
           /\ \A r \in DOMAIN reviews \cap DOMAIN reviews' :
                 reviews'[r].submission_id = reviews[r].submission_id
    ]_vars

\* Two finished requests of the same user for the same question have left
\* two submissions.
C14_Witness ==
  /\ req.pc = "done" /\ req.sid = 2
  /\ {1, 2} \subseteq DOMAIN submissions
  /\ submissions[1].user_id = req.user_id /\ submissions[2].user_id = req.user_id
  /\ submissions[1].question_id = req.question_id
  /\ submissions[2].question_id = req.question_id

\* C15: a submit-and-review request whose submission was created and whose
\* collaborator answered with parseable text succeeds, and what it returns is
\* the id of that submission with the newest of its reviews (null only when
\* the submission has no review).
C15_ReturnsNewestReview ==
  (Finished /\ req.collab.kind = "text" /\ ~Unparseable(req.collab.text)) =>
    /\ req.status = 200
    /\ resp.op = "POST /submissions/submit-and-review" => resp.body.sid = req.sid
    /\ req.review = IF ReviewsOf(req.sid) = {} THEN None
                    ELSE Some(NewestFirst(ReviewsOf(req.sid))[1])

====
